---- MODULE Spec2Model ----
(***************************************************************************)
(* State-machine model of the three Anchor programs of the Solana port:    *)
(*   purge_coin     (EconomyLedger)                                        *)
(*   purge_game     (GameLedger)                                           *)
(*   purge_trophies (RewardsLedger)                                        *)
(* Every instruction handler is one action.  An action covers the whole    *)
(* transaction: the account constraints of its #[derive(Accounts)] struct  *)
(* (which run before the handler body), the handler body, and the emitted  *)
(* event.  A failed transaction changes no account; the model records its  *)
(* error code in `last`.                                                   *)
(***************************************************************************)
EXTENDS Integers, Sequences, FiniteSets, TLC

\* ------------------------------------------------------------------ bounds
\* Integer widths are scaled: U64_MAX, U32_MAX stand for u64::MAX, u32::MAX.
U64_MAX == 5
U32_MAX == 6
\* Array capacities are scaled from 64 (the code is parametric in them).
MAP_QUEUE_CAPACITY == 3
MAP_REWARD_QUEUE_CAPACITY == 3
TICKET_PAGE_CAPACITY == 3
\* advance_level transactions counted by the history variable advance_calls.
ADVANCE_CALLS_MAX == 6

\* ------------------------------------------------------------------ domains
\* Pubkey values; DEFAULT_KEY is Pubkey::default().
DEFAULT_KEY == "default"
AUTHORITY == "authority"
GAME_AUTHORITY == "game_authority"
RNG_PROVIDER == "provider"
PLAYERS == {"alice", "bob"}
KEYS == {DEFAULT_KEY, AUTHORITY, GAME_AUTHORITY, RNG_PROVIDER} \cup PLAYERS
\* Signers tried for every instruction.
CALLERS == {AUTHORITY, GAME_AUTHORITY, RNG_PROVIDER, "alice"}

\* Clock::get()?.slot values tried for a transaction.
SLOTS == {1, 2}
\* u64 amounts tried as instruction arguments.
AMOUNTS == {0, 1, U64_MAX}

\* A missing (never created) account.
NO_ACCOUNT == [exists |-> FALSE]
\* Option<T>: None and Some(x)
NONE == <<>>
Some(x) == <<x>>
unwrap(o) == o[1]
NO_EVENT == [name |-> "none"]

\* ------------------------------------------------------------------ integer arithmetic
Min(a, b) == IF a < b THEN a ELSE b
Max(a, b) == IF a > b THEN a ELSE b

\* u64::saturating_add / saturating_sub / wrapping_add
saturating_add(a, b) == Min(a + b, U64_MAX)
saturating_sub(a, b) == Max(a - b, 0)
wrapping_add(a, b) == (a + b) % (U64_MAX + 1)
wrapping_sub(a, b) == (a - b + U64_MAX + 1) % (U64_MAX + 1)
\* u32::saturating_add
saturating_add_u32(a, b) == Min(a + b, U32_MAX)
\* `x as u32`
as_u32(x) == x % (U32_MAX + 1)
\* u16::saturating_add (a page count stays far below u16::MAX, kept at full width)
U16_MAX == 65535
saturating_add_u16(a, b) == Min(a + b, U16_MAX)

\* ------------------------------------------------------------------ state
VARIABLES
    \* purge_game accounts
    game_state,        \* GameState
    map_mint_queue,    \* PendingMapMintQueue
    rng_request,       \* RngRequestState, or NO_ACCOUNT
    player_state,      \* PlayerState per payer, or NO_ACCOUNT
    ticket_pages,      \* TraitTicketPage per (level, trait_id, page_index), or NO_ACCOUNT
    \* purge_coin accounts
    coin_state,        \* PurgeCoinState
    bets,              \* BetAccount per (player, bet_id), or NO_ACCOUNT
    affiliates,        \* AffiliateState per code seed, or NO_ACCOUNT
    stake_state,       \* StakeState per player, or NO_ACCOUNT
    \* purge_trophies accounts
    trophy_state,      \* TrophyState
    trophy_vault,      \* TrophyVault
    map_reward_queue,  \* MapRewardQueueAccount
    \* observation of the last transaction: instruction, result, event / return
    last,
    \* history: the map-mint entries enqueued and not yet dequeued, oldest first
    mint_pending,
    \* history: the number of advance_level transactions so far (counted up to
    \* ADVANCE_CALLS_MAX)
    advance_calls

gameVars == <<game_state, map_mint_queue, rng_request, player_state, ticket_pages>>
coinVars == <<coin_state, bets, affiliates, stake_state>>
trophyVars == <<trophy_state, trophy_vault, map_reward_queue>>
history == <<mint_pending, advance_calls>>
vars == <<gameVars, coinVars, trophyVars, last, history>>

\* A rejected transaction: nothing but the observation changes.
Reject(op, err) ==
    /\ last' = [op |-> op, result |-> err, event |-> NO_EVENT]
    /\ UNCHANGED <<gameVars, coinVars, trophyVars, history>>

Ok(op, event) == [op |-> op, result |-> "Ok", event |-> event]

\* ================================================================== purge_game
\* ------------------------------------------------------------------ PendingMapMintQueue
\* PendingMapMint::default()
PendingMapMint_default == [player |-> DEFAULT_KEY, trait_id |-> 0, level |-> 0]
\* Arguments tried for queue_map_mint.
QueueMapMintArgs == [player : PLAYERS, trait_id : {1}, level : {1}]

PendingMapMintQueue_len(q) == saturating_sub(q.tail, q.head)

\* Mutant: push without the fullness test.
PendingMapMintQueue_push_unbounded(q, entry) ==
    LET slot == q.tail % MAP_QUEUE_CAPACITY IN
    [ok |-> TRUE, err |-> "",
     self |-> [q EXCEPT !.items[slot] = entry, !.tail = wrapping_add(q.tail, 1)]]

\* Mutant: the fullness test of push is len() > capacity.
PendingMapMintQueue_push_len_gt(q, entry) ==
    IF PendingMapMintQueue_len(q) > MAP_QUEUE_CAPACITY
    THEN [ok |-> FALSE, err |-> "QueueFull", self |-> q]
    ELSE LET slot == q.tail % MAP_QUEUE_CAPACITY IN
         [ok |-> TRUE, err |-> "",
          self |-> [q EXCEPT !.items[slot] = entry,
                             !.tail = wrapping_add(q.tail, 1)]]

PendingMapMintQueue_push(q, entry) ==
    IF PendingMapMintQueue_len(q) >= MAP_QUEUE_CAPACITY
    THEN [ok |-> FALSE, err |-> "QueueFull", self |-> q]
    ELSE LET slot == q.tail % MAP_QUEUE_CAPACITY IN
         [ok |-> TRUE, err |-> "",
          self |-> [q EXCEPT !.items[slot] = entry,
                             !.tail = wrapping_add(q.tail, 1)]]

\* Mutant: pop takes the newest entry instead of the oldest.
PendingMapMintQueue_pop_newest(q) ==
    IF q.head = q.tail
    THEN [ok |-> FALSE, err |-> "QueueEmpty", self |-> q, entry |-> PendingMapMint_default]
    ELSE LET slot == wrapping_sub(q.tail, 1) % MAP_QUEUE_CAPACITY IN
         [ok |-> TRUE, err |-> "", entry |-> q.items[slot],
          self |-> [q EXCEPT !.items[slot] = PendingMapMint_default,
                             !.tail = wrapping_sub(q.tail, 1)]]

\* Mutant: pop does not reset the popped slot.
PendingMapMintQueue_pop_keeps_slot(q) ==
    IF q.head = q.tail
    THEN [ok |-> FALSE, err |-> "QueueEmpty", self |-> q, entry |-> PendingMapMint_default]
    ELSE LET slot == q.head % MAP_QUEUE_CAPACITY IN
         [ok |-> TRUE, err |-> "", entry |-> q.items[slot],
          self |-> [q EXCEPT !.head = wrapping_add(q.head, 1)]]

PendingMapMintQueue_pop(q) ==
    IF q.head = q.tail
    THEN [ok |-> FALSE, err |-> "QueueEmpty", self |-> q, entry |-> PendingMapMint_default]
    ELSE LET slot == q.head % MAP_QUEUE_CAPACITY IN
         [ok |-> TRUE, err |-> "", entry |-> q.items[slot],
          self |-> [q EXCEPT !.items[slot] = PendingMapMint_default,
                             !.head = wrapping_add(q.head, 1)]]

\* The tail counter advances by one per enqueue; a run of 2^64 enqueues is out
\* of reach, so the specifications stop the scaled counter before its wrap
\* (SpecCounters alone runs the counters into the wrap).
MapMintCounterInRange == map_mint_queue.tail < U64_MAX

queue_map_mint(caller, entry) ==
    IF caller # game_state.authority
    THEN Reject("queue_map_mint", "Unauthorized")
    ELSE LET r == PendingMapMintQueue_push(map_mint_queue, entry) IN
         IF ~r.ok
         THEN Reject("queue_map_mint", r.err)
         ELSE /\ map_mint_queue' = r.self
              /\ game_state' = [game_state EXCEPT
                     !.map_queue_len = as_u32(PendingMapMintQueue_len(r.self))]
              /\ last' = Ok("queue_map_mint",
                     [name |-> "MapMintQueued", player |-> entry.player,
                      trait_id |-> entry.trait_id, level |-> entry.level,
                      queue_len |-> PendingMapMintQueue_len(r.self)])
              /\ mint_pending' = Append(mint_pending, entry)
              /\ UNCHANGED <<rng_request, player_state, ticket_pages, coinVars, trophyVars, advance_calls>>

\* Mutant: dequeue_map_mint does not refresh the length mirror.
dequeue_map_mint_stale_len(caller) ==
    IF caller # game_state.authority
    THEN Reject("dequeue_map_mint", "Unauthorized")
    ELSE LET r == PendingMapMintQueue_pop(map_mint_queue) IN
         IF ~r.ok
         THEN Reject("dequeue_map_mint", r.err)
         ELSE /\ map_mint_queue' = r.self
              /\ last' = Ok("dequeue_map_mint",
                     [name |-> "MapMintDequeued", player |-> r.entry.player,
                      trait_id |-> r.entry.trait_id, level |-> r.entry.level,
                      queue_len |-> PendingMapMintQueue_len(r.self)])
              /\ mint_pending' = Tail(mint_pending)
              /\ UNCHANGED <<game_state, rng_request, player_state, ticket_pages, coinVars,
                             trophyVars, advance_calls>>

dequeue_map_mint(caller) ==
    IF caller # game_state.authority
    THEN Reject("dequeue_map_mint", "Unauthorized")
    ELSE LET r == PendingMapMintQueue_pop(map_mint_queue) IN
         IF ~r.ok
         THEN Reject("dequeue_map_mint", r.err)
         ELSE /\ map_mint_queue' = r.self
              /\ game_state' = [game_state EXCEPT
                     !.map_queue_len = as_u32(PendingMapMintQueue_len(r.self))]
              /\ last' = Ok("dequeue_map_mint",
                     [name |-> "MapMintDequeued", player |-> r.entry.player,
                      trait_id |-> r.entry.trait_id, level |-> r.entry.level,
                      queue_len |-> PendingMapMintQueue_len(r.self)])
              /\ mint_pending' = Tail(mint_pending)
              /\ UNCHANGED <<rng_request, player_state, ticket_pages, coinVars, trophyVars, advance_calls>>

\* ------------------------------------------------------------------ phase machine
GamePhase == {"Minting", "PurgeWindow", "Endgame", "Maintenance"}
\* u16 quantities tried for mint_nft.
QUANTITIES == {2}

\* Mutant: mint_nft without the phase test.
mint_nft_ungated(payer, quantity) ==
    LET old == player_state[payer]
        ps == IF old.exists THEN old
              ELSE [exists |-> TRUE, owner |-> payer, total_mints |-> 0,
                    last_level_interaction |-> 0]
    IN
    /\ player_state' = [player_state EXCEPT ![payer] =
           [ps EXCEPT !.total_mints = saturating_add(ps.total_mints, quantity),
                      !.last_level_interaction = game_state.level]]
    /\ last' = Ok("mint_nft", NO_EVENT)
    /\ UNCHANGED <<game_state, map_mint_queue, rng_request, ticket_pages, coinVars, trophyVars,
                   history>>

mint_nft(payer, quantity) ==
    IF game_state.phase # "Minting"
    THEN Reject("mint_nft", "PhaseMismatch")
    ELSE LET old == player_state[payer]
             ps == IF old.exists THEN old
                   ELSE \* init_if_needed: a zeroed account, then the bump == 0 branch
                        [exists |-> TRUE, owner |-> payer, total_mints |-> 0,
                         last_level_interaction |-> 0]
         IN
         /\ player_state' = [player_state EXCEPT ![payer] =
                [ps EXCEPT !.total_mints = saturating_add(ps.total_mints, quantity),
                           !.last_level_interaction = game_state.level]]
         /\ last' = Ok("mint_nft", NO_EVENT)
         /\ UNCHANGED <<game_state, map_mint_queue, rng_request, ticket_pages, coinVars, trophyVars,
                        history>>

purge_tokens(authority) ==
    IF ~player_state[authority].exists
    THEN \* Account<PlayerState> of a never-created account
         Reject("purge_tokens", "AccountNotInitialized")
    ELSE IF game_state.phase # "PurgeWindow"
    THEN Reject("purge_tokens", "PhaseMismatch")
    ELSE /\ last' = Ok("purge_tokens", NO_EVENT)
         /\ UNCHANGED <<gameVars, coinVars, trophyVars, history>>

\* Mutant: the level cap is tested with > instead of >=.
advance_level_past_cap ==
    /\ advance_calls' = Min(advance_calls + 1, ADVANCE_CALLS_MAX)
    /\ IF game_state.level > game_state.config.max_level
       THEN /\ last' = [op |-> "advance_level", result |-> "MaxLevelReached",
                        event |-> NO_EVENT]
            /\ UNCHANGED <<gameVars, coinVars, trophyVars, mint_pending>>
       ELSE /\ game_state' = [game_state EXCEPT
                   !.level = saturating_add_u32(game_state.level, 1),
                   !.phase = "Maintenance"]
            /\ last' = Ok("advance_level", NO_EVENT)
            /\ UNCHANGED <<map_mint_queue, rng_request, player_state, ticket_pages, coinVars,
                           trophyVars, mint_pending>>

advance_level ==
    /\ advance_calls' = Min(advance_calls + 1, ADVANCE_CALLS_MAX)
    /\ IF game_state.level >= game_state.config.max_level
       THEN /\ last' = [op |-> "advance_level", result |-> "MaxLevelReached",
                        event |-> NO_EVENT]
            /\ UNCHANGED <<gameVars, coinVars, trophyVars, mint_pending>>
       ELSE /\ game_state' = [game_state EXCEPT
                   !.level = saturating_add_u32(game_state.level, 1),
                   !.phase = "Maintenance"]
            /\ last' = Ok("advance_level", NO_EVENT)
            /\ UNCHANGED <<map_mint_queue, rng_request, player_state, ticket_pages, coinVars,
                           trophyVars, mint_pending>>

\* The two jackpot handlers ignore their accounts and their arguments.  last
\* keeps the instruction data next to the result, so that two submissions with
\* different entropy are two observations.
process_jackpot_daily(args) ==
    /\ last' = [op |-> "process_jackpot_daily", result |-> "Ok", event |-> NO_EVENT,
                entropy |-> args.entropy]
    /\ UNCHANGED <<gameVars, coinVars, trophyVars, history>>

process_jackpot_map(args) ==
    /\ last' = [op |-> "process_jackpot_map", result |-> "Ok", event |-> NO_EVENT,
                entropy |-> args.entropy]
    /\ UNCHANGED <<gameVars, coinVars, trophyVars, history>>

finalize_endgame_step ==
    /\ last' = Ok("finalize_endgame_step", NO_EVENT)
    /\ UNCHANGED <<gameVars, coinVars, trophyVars, history>>

\* ------------------------------------------------------------------ RNG request / fulfill
\* [u8; 8] tags and [u8; 32] words tried; ZERO_WORD is [0u8; 32].
TAGS == {"tagA"}
ZERO_WORD == "word0"
WORDS == {"wordA", "wordB"}
ProcessJackpotArgs == [entropy : WORDS]

request_rng(tag, slot) ==
    IF rng_request.exists
    THEN \* #[account(init, seeds = [RNG_REQUEST_SEED])] on an account that already exists
         Reject("request_rng", "AccountAlreadyInUse")
    ELSE IF game_state.rng_locked
    THEN Reject("request_rng", "RngRequestPending")
    ELSE /\ game_state' = [game_state EXCEPT !.rng_locked = TRUE,
                                             !.rng_last_request_slot = slot]
         /\ rng_request' = [exists |-> TRUE, slot |-> slot, tag |-> tag,
                            fulfilled |-> FALSE]
         /\ last' = Ok("request_rng", [name |-> "RngRequested", slot |-> slot, tag |-> tag])
         /\ UNCHANGED <<map_mint_queue, player_state, ticket_pages, coinVars, trophyVars, history>>

\* Mutant: fulfill_rng does not mark the request fulfilled.
fulfill_rng_leaves_request(caller, rng_word) ==
    IF ~rng_request.exists
    THEN Reject("fulfill_rng", "AccountNotInitialized")
    ELSE IF ~game_state.rng_locked
    THEN Reject("fulfill_rng", "RngNotLocked")
    ELSE IF caller # game_state.config.rng_provider
    THEN Reject("fulfill_rng", "Unauthorized")
    ELSE /\ game_state' = [game_state EXCEPT !.rng_word = rng_word,
                                             !.rng_locked = FALSE]
         /\ last' = Ok("fulfill_rng",
                [name |-> "RngFulfilled", slot |-> rng_request.slot, word |-> rng_word])
         /\ UNCHANGED <<map_mint_queue, rng_request, player_state, ticket_pages, coinVars, trophyVars,
                        history>>

\* Mutant: fulfill_rng without the provider test.
fulfill_rng_any_caller(caller, rng_word) ==
    IF ~rng_request.exists
    THEN \* Account<RngRequestState> of a never-created account
         Reject("fulfill_rng", "AccountNotInitialized")
    ELSE IF ~game_state.rng_locked
    THEN Reject("fulfill_rng", "RngNotLocked")
    ELSE /\ game_state' = [game_state EXCEPT !.rng_word = rng_word,
                                             !.rng_locked = FALSE]
         /\ rng_request' = [rng_request EXCEPT !.fulfilled = TRUE]
         /\ last' = Ok("fulfill_rng",
                [name |-> "RngFulfilled", slot |-> rng_request.slot, word |-> rng_word])
         /\ UNCHANGED <<map_mint_queue, player_state, ticket_pages, coinVars, trophyVars, history>>

fulfill_rng(caller, rng_word) ==
    IF ~rng_request.exists
    THEN \* Account<RngRequestState> of a never-created account
         Reject("fulfill_rng", "AccountNotInitialized")
    ELSE IF ~game_state.rng_locked
    THEN Reject("fulfill_rng", "RngNotLocked")
    ELSE IF caller # game_state.config.rng_provider
    THEN Reject("fulfill_rng", "Unauthorized")
    ELSE /\ game_state' = [game_state EXCEPT !.rng_word = rng_word,
                                             !.rng_locked = FALSE]
         /\ rng_request' = [rng_request EXCEPT !.fulfilled = TRUE]
         /\ last' = Ok("fulfill_rng",
                [name |-> "RngFulfilled", slot |-> rng_request.slot, word |-> rng_word])
         /\ UNCHANGED <<map_mint_queue, player_state, ticket_pages, coinVars, trophyVars, history>>

\* Arguments tried for configure_game.
ConfigureGameArgs ==
    [price_lamports : {NONE}, price_purge : {NONE}, jackpots_per_day : {NONE},
     early_purge_threshold : {NONE}, rng_provider : {NONE, Some(RNG_PROVIDER), Some("alice")}]
    \cup [price_lamports : {Some(2)}, price_purge : {Some(2)}, jackpots_per_day : {Some(2)},
          early_purge_threshold : {Some(2)}, rng_provider : {NONE}]

\* Mutant: rotating the provider also releases the RNG lock.
configure_game_unlocks(caller, args) ==
    IF caller # game_state.authority
    THEN Reject("configure_game", "Unauthorized")
    ELSE /\ game_state' = [game_state EXCEPT
                !.config.price_lamports =
                    IF args.price_lamports # NONE THEN unwrap(args.price_lamports) ELSE @,
                !.config.price_purge =
                    IF args.price_purge # NONE THEN unwrap(args.price_purge) ELSE @,
                !.config.jackpots_per_day =
                    IF args.jackpots_per_day # NONE THEN unwrap(args.jackpots_per_day) ELSE @,
                !.config.early_purge_threshold =
                    IF args.early_purge_threshold # NONE
                    THEN unwrap(args.early_purge_threshold) ELSE @,
                !.rng_locked = IF args.rng_provider # NONE THEN FALSE ELSE @,
                !.config.rng_provider =
                    IF args.rng_provider # NONE THEN unwrap(args.rng_provider) ELSE @]
         /\ last' = Ok("configure_game", NO_EVENT)
         /\ UNCHANGED <<map_mint_queue, rng_request, player_state, ticket_pages, coinVars, trophyVars,
                        history>>

configure_game(caller, args) ==
    IF caller # game_state.authority
    THEN Reject("configure_game", "Unauthorized")
    ELSE /\ game_state' = [game_state EXCEPT
                !.config.price_lamports =
                    IF args.price_lamports # NONE THEN unwrap(args.price_lamports) ELSE @,
                !.config.price_purge =
                    IF args.price_purge # NONE THEN unwrap(args.price_purge) ELSE @,
                !.config.jackpots_per_day =
                    IF args.jackpots_per_day # NONE THEN unwrap(args.jackpots_per_day) ELSE @,
                !.config.early_purge_threshold =
                    IF args.early_purge_threshold # NONE
                    THEN unwrap(args.early_purge_threshold) ELSE @,
                !.config.rng_provider =
                    IF args.rng_provider # NONE THEN unwrap(args.rng_provider) ELSE @]
         /\ last' = Ok("configure_game", NO_EVENT)
         /\ UNCHANGED <<map_mint_queue, rng_request, player_state, ticket_pages, coinVars, trophyVars,
                        history>>

\* ------------------------------------------------------------------ TraitTicketPage
\* Page addresses: the PDA seeds (level, trait_id, page_index) of the instruction
\* arguments.
TICKET_KEYS == [level : {1, 2}, trait_id : {1}, page_index : {0}]
\* The page the TraitTicketPage methods are exercised on.
PAGE_ADDRESS == [level |-> 1, trait_id |-> 1, page_index |-> 0]
\* Header triples tried for ensure_header.
TICKET_HEADERS == [level : {1, 2}, trait_id : {1, 2}, page_index : {0}]

\* A freshly created (zeroed) page account.
TraitTicketPage_zeroed ==
    [exists |-> TRUE, level |-> 0, trait_id |-> 0, page_index |-> 0, count |-> 0,
     seats |-> [i \in 0 .. TICKET_PAGE_CAPACITY - 1 |-> DEFAULT_KEY]]

\* The page stored at an address; init_if_needed creates it zeroed.
page_of(k) == IF ticket_pages[k].exists THEN ticket_pages[k] ELSE TraitTicketPage_zeroed

\* Mutant: ensure_header rebinds the page whatever its count.
TraitTicketPage_ensure_header_rebinds(page, level, trait_id, page_index) ==
    [ok |-> TRUE, err |-> "",
     self |-> [page EXCEPT !.level = level, !.trait_id = trait_id,
                           !.page_index = page_index]]

TraitTicketPage_ensure_header(page, level, trait_id, page_index) ==
    IF page.count = 0
    THEN [ok |-> TRUE, err |-> "",
          self |-> [page EXCEPT !.level = level, !.trait_id = trait_id,
                                !.page_index = page_index]]
    ELSE IF page.level # level \/ page.trait_id # trait_id \/ page.page_index # page_index
    THEN [ok |-> FALSE, err |-> "TicketPageMismatch", self |-> page]
    ELSE [ok |-> TRUE, err |-> "", self |-> page]

\* Mutant: push without the capacity test.
TraitTicketPage_push_unbounded(page, player) ==
    LET idx == page.count IN
    [ok |-> TRUE, err |-> "", idx |-> idx,
     self |-> [page EXCEPT !.seats = [i \in DOMAIN page.seats |->
                                         IF i = idx THEN player ELSE page.seats[i]],
                           !.count = saturating_add_u16(page.count, 1)]]

TraitTicketPage_push(page, player) ==
    IF page.count >= TICKET_PAGE_CAPACITY
    THEN [ok |-> FALSE, err |-> "TicketPageFull", idx |-> 0, self |-> page]
    ELSE LET idx == page.count IN
         [ok |-> TRUE, err |-> "", idx |-> idx,
          self |-> [page EXCEPT !.seats[idx] = player,
                                !.count = saturating_add_u16(page.count, 1)]]

\* Mutant: clear resets the count and leaves the seats.
TraitTicketPage_clear_keeps_seats(page) ==
    [page EXCEPT !.count = 0]

TraitTicketPage_clear(page) ==
    [page EXCEPT !.count = 0,
                 !.seats = [i \in 0 .. TICKET_PAGE_CAPACITY - 1 |-> DEFAULT_KEY]]

add_trait_ticket(caller, player, args) ==
    IF caller # game_state.authority
    THEN Reject("add_trait_ticket", "Unauthorized")
    ELSE LET h == TraitTicketPage_ensure_header(page_of(args), args.level, args.trait_id,
                                                args.page_index)
         IN  IF ~h.ok
             THEN Reject("add_trait_ticket", h.err)
             ELSE LET r == TraitTicketPage_push(h.self, player) IN
                  IF ~r.ok
                  THEN Reject("add_trait_ticket", r.err)
                  ELSE /\ ticket_pages' = [ticket_pages EXCEPT ![args] = r.self]
                       /\ last' = Ok("add_trait_ticket",
                              [name |-> "TraitTicketAdded", level |-> r.self.level,
                               trait_id |-> r.self.trait_id,
                               page_index |-> r.self.page_index, position |-> r.idx,
                               player |-> player])
                       /\ UNCHANGED <<game_state, map_mint_queue, rng_request,
                                      player_state, coinVars, trophyVars, history>>

clear_trait_ticket_page(caller, args) ==
    IF ~ticket_pages[args].exists
    THEN \* Account<TraitTicketPage> of a never-created account
         Reject("clear_trait_ticket_page", "AccountNotInitialized")
    ELSE IF caller # game_state.authority
    THEN Reject("clear_trait_ticket_page", "Unauthorized")
    ELSE LET h == TraitTicketPage_ensure_header(ticket_pages[args], args.level,
                                                args.trait_id, args.page_index)
         IN  IF ~h.ok
             THEN Reject("clear_trait_ticket_page", h.err)
             ELSE /\ ticket_pages' = [ticket_pages EXCEPT ![args] =
                         TraitTicketPage_clear(h.self)]
                  /\ last' = Ok("clear_trait_ticket_page",
                         [name |-> "TraitTicketCleared", level |-> args.level,
                          trait_id |-> args.trait_id, page_index |-> args.page_index])
                  /\ UNCHANGED <<game_state, map_mint_queue, rng_request, player_state,
                                 coinVars, trophyVars, history>>

\* The methods of TraitTicketPage applied, with any arguments, to the page held
\* at address k.
page_ensure_header(k, level, trait_id, page_index) ==
    LET r == TraitTicketPage_ensure_header(page_of(k), level, trait_id, page_index) IN
    /\ ticket_pages' = [ticket_pages EXCEPT ![k] = r.self]
    /\ last' = [op |-> "ensure_header", result |-> IF r.ok THEN "Ok" ELSE r.err,
                event |-> NO_EVENT]
    /\ UNCHANGED <<game_state, map_mint_queue, rng_request, player_state, coinVars,
                   trophyVars, history>>

page_push(k, player) ==
    LET r == TraitTicketPage_push(page_of(k), player) IN
    /\ ticket_pages' = [ticket_pages EXCEPT ![k] = r.self]
    /\ last' = [op |-> "push", result |-> IF r.ok THEN "Ok" ELSE r.err,
                event |-> NO_EVENT]
    /\ UNCHANGED <<game_state, map_mint_queue, rng_request, player_state, coinVars,
                   trophyVars, history>>

page_clear(k) ==
    /\ ticket_pages' = [ticket_pages EXCEPT ![k] = TraitTicketPage_clear(page_of(k))]
    /\ last' = [op |-> "clear", result |-> "Ok", event |-> NO_EVENT]
    /\ UNCHANGED <<game_state, map_mint_queue, rng_request, player_state, coinVars,
                   trophyVars, history>>

\* ================================================================== purge_trophies
\* MapRewardEntry::default()
MapRewardEntry_default ==
    [player |-> DEFAULT_KEY, trait_id |-> 0, level |-> 0, amount_lamports |-> 0]
\* Arguments tried for enqueue_map_reward.
MapRewardArgs == [player : PLAYERS, trait_id : {1}, level : {1}, amount_lamports : {1}]

\* `a - b` on u64: with overflow checks the program panics when b > a, without
\* them the difference wraps.
OVERFLOW_BUILDS == {"panic", "wrap"}

MapRewardCounterInRange == map_reward_queue.tail < U64_MAX

\* Mutant: the fullness test uses tail instead of next_tail.
enqueue_map_reward_off_by_one(caller, entry) ==
    IF caller # trophy_state.game_authority
    THEN Reject("enqueue_map_reward", "Unauthorized")
    ELSE LET queue == map_reward_queue
             next_tail == wrapping_add(queue.tail, 1)
         IN  IF wrapping_sub(queue.tail, queue.head) > MAP_REWARD_QUEUE_CAPACITY
             THEN Reject("enqueue_map_reward", "QueueFull")
             ELSE LET slot == queue.tail % MAP_REWARD_QUEUE_CAPACITY IN
                  /\ map_reward_queue' = [queue EXCEPT !.entries[slot] = entry,
                                                       !.tail = next_tail]
                  /\ last' = Ok("enqueue_map_reward", NO_EVENT)
                  /\ UNCHANGED <<trophy_state, trophy_vault, gameVars, coinVars,
                                 history>>

enqueue_map_reward(caller, entry) ==
    IF caller # trophy_state.game_authority
    THEN Reject("enqueue_map_reward", "Unauthorized")
    ELSE LET queue == map_reward_queue
             next_tail == wrapping_add(queue.tail, 1)
         IN  \E build \in OVERFLOW_BUILDS :
             IF next_tail < queue.head /\ build = "panic"
             THEN Reject("enqueue_map_reward", "Panic")
             ELSE IF wrapping_sub(next_tail, queue.head) > MAP_REWARD_QUEUE_CAPACITY
             THEN Reject("enqueue_map_reward", "QueueFull")
             ELSE LET slot == queue.tail % MAP_REWARD_QUEUE_CAPACITY IN
                  /\ map_reward_queue' = [queue EXCEPT !.entries[slot] = entry,
                                                       !.tail = next_tail]
                  /\ last' = Ok("enqueue_map_reward", NO_EVENT)
                  /\ UNCHANGED <<trophy_state, trophy_vault, gameVars, coinVars,
                                 history>>

pop_map_reward(caller) ==
    LET queue == map_reward_queue IN
    IF queue.head = queue.tail
    THEN Reject("pop_map_reward", "QueueEmpty")
    ELSE LET slot == queue.head % MAP_REWARD_QUEUE_CAPACITY IN
         /\ map_reward_queue' = [queue EXCEPT !.entries[slot] = MapRewardEntry_default,
                                              !.head = wrapping_add(queue.head, 1)]
         /\ last' = Ok("pop_map_reward", NO_EVENT)
         /\ UNCHANGED <<trophy_state, trophy_vault, gameVars, coinVars, history>>

award_trophy(caller, deferred_lamports) ==
    IF caller # trophy_state.authority
    THEN Reject("award_trophy", "Unauthorized")
    ELSE /\ trophy_vault' = [trophy_vault EXCEPT !.pending_amount =
                saturating_add(trophy_vault.pending_amount, deferred_lamports)]
         /\ last' = Ok("award_trophy", NO_EVENT)
         /\ UNCHANGED <<trophy_state, map_reward_queue, gameVars, coinVars, history>>

\* Mutant: process_end_level without the already-settled test.
process_end_level_unguarded(level) ==
    /\ trophy_vault' = [trophy_vault EXCEPT !.last_level_paid = level]
    /\ trophy_state' = [trophy_state EXCEPT !.last_level_processed = level]
    /\ last' = Ok("process_end_level", NO_EVENT)
    /\ UNCHANGED <<map_reward_queue, gameVars, coinVars, history>>

process_end_level(level) ==
    IF level <= trophy_vault.last_level_paid
    THEN Reject("process_end_level", "LevelAlreadySettled")
    ELSE /\ trophy_vault' = [trophy_vault EXCEPT !.last_level_paid = level]
         /\ trophy_state' = [trophy_state EXCEPT !.last_level_processed = level]
         /\ last' = Ok("process_end_level", NO_EVENT)
         /\ UNCHANGED <<map_reward_queue, gameVars, coinVars, history>>

\* ================================================================== purge_coin
BET_IDS == {1}
BET_KEYS == PLAYERS \X BET_IDS
CODE_SEEDS == {"seedA", "seedB"}
PlaceBetArgs == [amount : AMOUNTS, target_level : {1}, risk : {1}, bet_id : BET_IDS]

\* Mutant: place_bet without the minimum-wager test.
place_bet_no_minimum(player, args, slot) ==
    LET key == <<player, args.bet_id>> IN
    IF bets[key].exists
    THEN Reject("place_bet", "AccountAlreadyInUse")
    ELSE /\ bets' = [bets EXCEPT ![key] =
                [exists |-> TRUE, player |-> player, amount |-> args.amount,
                 target_level |-> args.target_level, risk |-> args.risk,
                 bet_id |-> args.bet_id, slot_placed |-> slot, resolved |-> FALSE,
                 result |-> NONE, slot_resolved |-> NONE]]
         /\ coin_state' = [coin_state EXCEPT
                !.total_bets = saturating_add(coin_state.total_bets, 1)]
         /\ stake_state' = [stake_state EXCEPT ![player] =
                IF stake_state[player].exists THEN stake_state[player]
                ELSE [exists |-> TRUE, owner |-> player]]
         /\ last' = Ok("place_bet",
                [name |-> "BetPlaced", player |-> player, bet_id |-> args.bet_id,
                 amount |-> args.amount, risk |-> args.risk])
         /\ UNCHANGED <<affiliates, gameVars, trophyVars, history>>

\* Mutant: the bet account is re-initialised when it already exists.
place_bet_reinit(player, args, slot) ==
    LET key == <<player, args.bet_id>> IN
    IF args.amount < coin_state.min_bet
    THEN Reject("place_bet", "BelowMinimumBet")
    ELSE /\ bets' = [bets EXCEPT ![key] =
                [exists |-> TRUE, player |-> player, amount |-> args.amount,
                 target_level |-> args.target_level, risk |-> args.risk,
                 bet_id |-> args.bet_id, slot_placed |-> slot, resolved |-> FALSE,
                 result |-> NONE, slot_resolved |-> NONE]]
         /\ coin_state' = [coin_state EXCEPT
                !.total_bets = saturating_add(coin_state.total_bets, 1)]
         /\ stake_state' = [stake_state EXCEPT ![player] =
                IF stake_state[player].exists THEN stake_state[player]
                ELSE [exists |-> TRUE, owner |-> player]]
         /\ last' = Ok("place_bet",
                [name |-> "BetPlaced", player |-> player, bet_id |-> args.bet_id,
                 amount |-> args.amount, risk |-> args.risk])
         /\ UNCHANGED <<affiliates, gameVars, trophyVars, history>>

place_bet(player, args, slot) ==
    LET key == <<player, args.bet_id>> IN
    IF bets[key].exists
    THEN \* #[account(init, ...)] on an account that already exists
         Reject("place_bet", "AccountAlreadyInUse")
    ELSE IF args.amount < coin_state.min_bet
    THEN Reject("place_bet", "BelowMinimumBet")
    ELSE /\ bets' = [bets EXCEPT ![key] =
                [exists |-> TRUE, player |-> player, amount |-> args.amount,
                 target_level |-> args.target_level, risk |-> args.risk,
                 bet_id |-> args.bet_id, slot_placed |-> slot, resolved |-> FALSE,
                 result |-> NONE, slot_resolved |-> NONE]]
         /\ coin_state' = [coin_state EXCEPT
                !.total_bets = saturating_add(coin_state.total_bets, 1)]
         /\ stake_state' = [stake_state EXCEPT ![player] =
                IF stake_state[player].exists THEN stake_state[player]
                ELSE [exists |-> TRUE, owner |-> player]]
         /\ last' = Ok("place_bet",
                [name |-> "BetPlaced", player |-> player, bet_id |-> args.bet_id,
                 amount |-> args.amount, risk |-> args.risk])
         /\ UNCHANGED <<affiliates, gameVars, trophyVars, history>>

\* Mutant: settle_bet without the resolved test.
settle_bet_unguarded(key, result, payout, slot) ==
    IF ~bets[key].exists
    THEN Reject("settle_bet", "AccountNotInitialized")
    ELSE LET bet == bets[key] IN
         /\ bets' = [bets EXCEPT ![key] =
                [bet EXCEPT !.resolved = TRUE, !.result = Some(result),
                            !.slot_resolved = Some(slot)]]
         /\ coin_state' = [coin_state EXCEPT !.jackpot_pool_purge =
                IF result
                THEN saturating_sub(coin_state.jackpot_pool_purge, payout)
                ELSE saturating_add(coin_state.jackpot_pool_purge, bet.amount)]
         /\ last' = Ok("settle_bet",
                [name |-> "BetSettled", player |-> bet.player,
                 bet_id |-> bet.bet_id, result |-> result, payout |-> payout])
         /\ UNCHANGED <<affiliates, stake_state, gameVars, trophyVars, history>>

\* Mutant: a lost bet adds the payout argument instead of the wager.
settle_bet_adds_payout(key, result, payout, slot) ==
    IF ~bets[key].exists
    THEN Reject("settle_bet", "AccountNotInitialized")
    ELSE LET bet == bets[key] IN
         IF bet.resolved
         THEN Reject("settle_bet", "BetAlreadyResolved")
         ELSE /\ bets' = [bets EXCEPT ![key] =
                     [bet EXCEPT !.resolved = TRUE, !.result = Some(result),
                                 !.slot_resolved = Some(slot)]]
              /\ coin_state' = [coin_state EXCEPT !.jackpot_pool_purge =
                     IF result
                     THEN saturating_sub(coin_state.jackpot_pool_purge, payout)
                     ELSE saturating_add(coin_state.jackpot_pool_purge, payout)]
              /\ last' = Ok("settle_bet",
                     [name |-> "BetSettled", player |-> bet.player,
                      bet_id |-> bet.bet_id, result |-> result, payout |-> payout])
              /\ UNCHANGED <<affiliates, stake_state, gameVars, trophyVars, history>>

settle_bet(key, result, payout, slot) ==
    IF ~bets[key].exists
    THEN \* Account<BetAccount> of a never-created account
         Reject("settle_bet", "AccountNotInitialized")
    ELSE LET bet == bets[key] IN
         IF bet.resolved
         THEN Reject("settle_bet", "BetAlreadyResolved")
         ELSE /\ bets' = [bets EXCEPT ![key] =
                     [bet EXCEPT !.resolved = TRUE, !.result = Some(result),
                                 !.slot_resolved = Some(slot)]]
              /\ coin_state' = [coin_state EXCEPT !.jackpot_pool_purge =
                     IF result
                     THEN saturating_sub(coin_state.jackpot_pool_purge, payout)
                     ELSE saturating_add(coin_state.jackpot_pool_purge, bet.amount)]
              /\ last' = Ok("settle_bet",
                     [name |-> "BetSettled", player |-> bet.player,
                      bet_id |-> bet.bet_id, result |-> result, payout |-> payout])
              /\ UNCHANGED <<affiliates, stake_state, gameVars, trophyVars, history>>

\* Mutant: record_burn without the minimum-burn test.
record_burn_no_minimum(player, amount) ==
    /\ coin_state' = [coin_state EXCEPT
           !.total_burned = saturating_add(coin_state.total_burned, amount)]
    /\ last' = Ok("record_burn",
           [name |-> "BurnRecorded", player |-> player, amount |-> amount])
    /\ UNCHANGED <<bets, affiliates, stake_state, gameVars, trophyVars, history>>

record_burn(player, amount) ==
    IF amount < coin_state.min_burn
    THEN Reject("record_burn", "BelowMinimumBurn")
    ELSE /\ coin_state' = [coin_state EXCEPT
                !.total_burned = saturating_add(coin_state.total_burned, amount)]
         /\ last' = Ok("record_burn",
                [name |-> "BurnRecorded", player |-> player, amount |-> amount])
         /\ UNCHANGED <<bets, affiliates, stake_state, gameVars, trophyVars, history>>

\* Mutant: the accrual is added to pending_claim and not to total_earned.
award_affiliate_pending_only(caller, code_seed, amount) ==
    IF caller # coin_state.authority
    THEN Reject("award_affiliate", "Unauthorized")
    ELSE LET old == affiliates[code_seed]
             affiliate == IF old.exists THEN old
                          ELSE \* init_if_needed: a zeroed account, then the bump == 0 branch
                               [exists |-> TRUE, code_seed |-> code_seed,
                                total_earned |-> 0, pending_claim |-> 0,
                                pending_claim_lamports |-> 0, last_level |-> 0,
                                last_claim_slot |-> 0]
         IN
         /\ affiliates' = [affiliates EXCEPT ![code_seed] =
                [affiliate EXCEPT
                    !.pending_claim = saturating_add(affiliate.pending_claim, amount),
                    !.last_level = coin_state.last_level_synced]]
         /\ last' = Ok("award_affiliate",
                [name |-> "AffiliateRewarded", code_seed |-> code_seed, amount |-> amount])
         /\ UNCHANGED <<coin_state, bets, stake_state, gameVars, trophyVars, history>>

award_affiliate(caller, code_seed, amount) ==
    IF caller # coin_state.authority
    THEN Reject("award_affiliate", "Unauthorized")
    ELSE LET old == affiliates[code_seed]
             affiliate == IF old.exists THEN old
                          ELSE \* init_if_needed: a zeroed account, then the bump == 0 branch
                               [exists |-> TRUE, code_seed |-> code_seed,
                                total_earned |-> 0, pending_claim |-> 0,
                                pending_claim_lamports |-> 0, last_level |-> 0,
                                last_claim_slot |-> 0]
         IN
         /\ affiliates' = [affiliates EXCEPT ![code_seed] =
                [affiliate EXCEPT
                    !.total_earned = saturating_add(affiliate.total_earned, amount),
                    !.pending_claim = saturating_add(affiliate.pending_claim, amount),
                    !.last_level = coin_state.last_level_synced]]
         /\ last' = Ok("award_affiliate",
                [name |-> "AffiliateRewarded", code_seed |-> code_seed, amount |-> amount])
         /\ UNCHANGED <<coin_state, bets, stake_state, gameVars, trophyVars, history>>

\* Arguments tried for configure_coin.
ConfigureCoinArgs ==
    [min_bet : {NONE, Some(0), Some(1)}, min_burn : {NONE}, house_edge_bps : {NONE},
     burn_tax_bps : {NONE}]
    \cup [min_bet : {NONE}, min_burn : {Some(0)}, house_edge_bps : {Some(1)},
          burn_tax_bps : {Some(1)}]

\* Mutant: an absent min_burn is stored as 0 (unwrap_or_default).
configure_coin_resets_absent(caller, args) ==
    IF caller # coin_state.authority
    THEN Reject("configure_coin", "Unauthorized")
    ELSE /\ coin_state' = [coin_state EXCEPT
                !.min_bet = IF args.min_bet # NONE THEN unwrap(args.min_bet) ELSE @,
                !.min_burn = IF args.min_burn # NONE THEN unwrap(args.min_burn) ELSE 0,
                !.house_edge_bps =
                    IF args.house_edge_bps # NONE THEN unwrap(args.house_edge_bps) ELSE @,
                !.burn_tax_bps =
                    IF args.burn_tax_bps # NONE THEN unwrap(args.burn_tax_bps) ELSE @]
         /\ last' = Ok("configure_coin", NO_EVENT)
         /\ UNCHANGED <<bets, affiliates, stake_state, gameVars, trophyVars, history>>

configure_coin(caller, args) ==
    IF caller # coin_state.authority
    THEN Reject("configure_coin", "Unauthorized")
    ELSE /\ coin_state' = [coin_state EXCEPT
                !.min_bet = IF args.min_bet # NONE THEN unwrap(args.min_bet) ELSE @,
                !.min_burn = IF args.min_burn # NONE THEN unwrap(args.min_burn) ELSE @,
                !.house_edge_bps =
                    IF args.house_edge_bps # NONE THEN unwrap(args.house_edge_bps) ELSE @,
                !.burn_tax_bps =
                    IF args.burn_tax_bps # NONE THEN unwrap(args.burn_tax_bps) ELSE @]
         /\ last' = Ok("configure_coin", NO_EVENT)
         /\ UNCHANGED <<bets, affiliates, stake_state, gameVars, trophyVars, history>>

sync_jackpot(amount) ==
    /\ last' = Ok("sync_jackpot", NO_EVENT)
    /\ UNCHANGED <<gameVars, coinVars, trophyVars, history>>

\* Mutant: claim_affiliate without the pending-balance test.
claim_affiliate_unchecked(receiver, code_seed, amount, slot) ==
    IF ~affiliates[code_seed].exists
    THEN Reject("claim_affiliate", "AccountNotInitialized")
    ELSE IF receiver # coin_state.authority
    THEN Reject("claim_affiliate", "Unauthorized")
    ELSE LET affiliate == affiliates[code_seed] IN
         /\ affiliates' = [affiliates EXCEPT ![code_seed] =
                [affiliate EXCEPT
                    !.pending_claim = saturating_sub(affiliate.pending_claim, amount),
                    !.last_claim_slot = slot]]
         /\ last' = Ok("claim_affiliate",
                [name |-> "AffiliateClaimed", code_seed |-> affiliate.code_seed,
                 receiver |-> receiver, amount |-> amount])
         /\ UNCHANGED <<coin_state, bets, stake_state, gameVars, trophyVars, history>>

claim_affiliate(receiver, code_seed, amount, slot) ==
    IF ~affiliates[code_seed].exists
    THEN \* Account<AffiliateState> of a never-created account
         Reject("claim_affiliate", "AccountNotInitialized")
    ELSE IF receiver # coin_state.authority
    THEN Reject("claim_affiliate", "Unauthorized")
    ELSE LET affiliate == affiliates[code_seed] IN
         IF amount > affiliate.pending_claim
         THEN Reject("claim_affiliate", "PayoutExceeded")
         ELSE /\ affiliates' = [affiliates EXCEPT ![code_seed] =
                     [affiliate EXCEPT
                         !.pending_claim = saturating_sub(affiliate.pending_claim, amount),
                         !.last_claim_slot = slot]]
              /\ last' = Ok("claim_affiliate",
                     [name |-> "AffiliateClaimed", code_seed |-> affiliate.code_seed,
                      receiver |-> receiver, amount |-> amount])
              /\ UNCHANGED <<coin_state, bets, stake_state, gameVars, trophyVars,
                             history>>

\* ================================================================== initial state
\* The accounts as initialize_game, purge_coin::initialize and
\* purge_trophies::initialize leave them; max_level is initialize_game's argument.
InitGame(max_level) ==
    /\ game_state =
          [authority |-> AUTHORITY,
           config |-> [price_lamports |-> 1, price_purge |-> 1, max_level |-> max_level,
                       coin_program |-> "purge_coin", trophy_program |-> "purge_trophies",
                       rng_provider |-> RNG_PROVIDER, jackpots_per_day |-> 1,
                       early_purge_threshold |-> 1],
           level |-> 1, phase |-> "Minting", jackpot_counter |-> 0, daily_index |-> 0,
           rng_locked |-> FALSE, rng_last_request_slot |-> 0, rng_word |-> ZERO_WORD,
           prize_pool_lamports |-> 0, next_prize_pool_lamports |-> 0,
           carryover_lamports |-> 0, last_level_prize_pool |-> 0, coin_prize_pool |-> 0,
           map_queue_len |-> 0, pending_endgame_cursor |-> 0]
    /\ map_mint_queue =
          [head |-> 0, tail |-> 0,
           items |-> [i \in 0 .. MAP_QUEUE_CAPACITY - 1 |-> PendingMapMint_default]]
    /\ rng_request = NO_ACCOUNT
    /\ player_state = [p \in KEYS |-> NO_ACCOUNT]
    /\ ticket_pages = [k \in TICKET_KEYS |-> NO_ACCOUNT]

InitCoin ==
    /\ coin_state =
          [authority |-> AUTHORITY, mint |-> "purge_mint", min_bet |-> 1, min_burn |-> 1,
           house_edge_bps |-> 0, burn_tax_bps |-> 0, total_burned |-> 0, total_bets |-> 0,
           jackpot_pool_purge |-> 0, jackpot_pool_sol |-> 0, last_level_synced |-> 0]
    /\ bets = [k \in BET_KEYS |-> NO_ACCOUNT]
    /\ affiliates = [c \in CODE_SEEDS |-> NO_ACCOUNT]
    /\ stake_state = [p \in KEYS |-> NO_ACCOUNT]

InitTrophies ==
    /\ trophy_state =
          [authority |-> AUTHORITY, map_reward_basis_points |-> 1, map_reward_minimum |-> 1,
           purge_coin_program |-> "purge_coin", purge_game_program |-> "purge_game",
           game_authority |-> GAME_AUTHORITY, last_level_processed |-> 0]
    /\ trophy_vault = [pending_amount |-> 0, last_level_paid |-> 0]
    /\ map_reward_queue =
          [head |-> 0, tail |-> 0,
           entries |-> [i \in 0 .. MAP_REWARD_QUEUE_CAPACITY - 1 |-> MapRewardEntry_default]]

InitWith(max_level) ==
    /\ InitGame(max_level)
    /\ InitCoin
    /\ InitTrophies
    /\ last = [op |-> "initialize", result |-> "Ok", event |-> NO_EVENT]
    /\ mint_pending = <<>>
    /\ advance_calls = 0

Init == \E max_level \in 0 .. U32_MAX : InitWith(max_level)

\* ================================================================== specifications
\* The three programs own disjoint accounts and never call one another, so each
\* group of instructions is also explored on its own.

\* The two bounded queues.
NextQueue ==
    \/ \E caller \in CALLERS, entry \in QueueMapMintArgs :
          MapMintCounterInRange /\ queue_map_mint(caller, entry)
    \/ \E caller \in CALLERS : dequeue_map_mint(caller)
    \/ \E caller \in CALLERS, entry \in MapRewardArgs :
          MapRewardCounterInRange /\ enqueue_map_reward(caller, entry)
    \/ \E caller \in CALLERS : pop_map_reward(caller)

SpecQueue == InitWith(U32_MAX) /\ [][NextQueue]_vars

\* Wagers.
NextBet ==
    \/ \E player \in PLAYERS, args \in PlaceBetArgs, slot \in SLOTS :
          place_bet(player, args, slot)
    \/ \E key \in BET_KEYS, result \in BOOLEAN, payout \in AMOUNTS, slot \in SLOTS :
          settle_bet(key, result, payout, slot)
    \/ \E caller \in CALLERS, args \in ConfigureCoinArgs : configure_coin(caller, args)

SpecBet == InitWith(U32_MAX) /\ [][NextBet]_vars

\* Affiliate accrual and claims.
NextAffiliate ==
    \/ \E caller \in CALLERS, code_seed \in CODE_SEEDS, amount \in AMOUNTS :
          award_affiliate(caller, code_seed, amount)
    \/ \E receiver \in CALLERS, code_seed \in CODE_SEEDS, amount \in AMOUNTS,
          slot \in SLOTS : claim_affiliate(receiver, code_seed, amount, slot)

SpecAffiliate == InitWith(U32_MAX) /\ [][NextAffiliate]_vars

\* Level / phase progression and the RNG lock.
NextGame ==
    \/ \E payer \in {"alice"}, quantity \in QUANTITIES : mint_nft(payer, quantity)
    \/ \E authority \in PLAYERS : purge_tokens(authority)
    \/ advance_level
    \/ \E args \in [entropy : {ZERO_WORD}] : process_jackpot_daily(args)
    \/ \E args \in [entropy : {ZERO_WORD}] : process_jackpot_map(args)
    \/ finalize_endgame_step
    \/ \E tag \in TAGS, slot \in SLOTS : request_rng(tag, slot)
    \/ \E caller \in CALLERS, rng_word \in WORDS : fulfill_rng(caller, rng_word)
    \/ \E caller \in CALLERS, args \in ConfigureGameArgs : configure_game(caller, args)

SpecGame == Init /\ [][NextGame]_vars

\* advance_level takes no signer, so any party can submit it at any time: it is
\* never starved.  It is the only instruction that writes level or phase and
\* its effect on them is a function of (level, phase, max_level), so under this
\* fairness every behaviour walks the one path of levels and phases that is
\* reachable at all.
SpecGameFair == SpecGame /\ WF_vars(advance_level)

\* Trait ticket pages.
NextTickets ==
    \/ \E caller \in CALLERS, player \in PLAYERS, args \in TICKET_KEYS :
          add_trait_ticket(caller, player, args)
    \/ \E caller \in CALLERS, args \in TICKET_KEYS : clear_trait_ticket_page(caller, args)

SpecTickets == InitWith(U32_MAX) /\ [][NextTickets]_vars

\* The TraitTicketPage methods on one page, with every header triple.
NextPage ==
    \/ \E k \in {PAGE_ADDRESS}, h \in TICKET_HEADERS :
          page_ensure_header(k, h.level, h.trait_id, h.page_index)
    \/ \E k \in {PAGE_ADDRESS}, player \in PLAYERS :
          page_push(k, player)
    \/ \E k \in {PAGE_ADDRESS} : page_clear(k)

SpecPage == InitWith(U32_MAX) /\ [][NextPage]_vars

\* The shared resources together: both queues and one ticket page, each fed
\* one kind of entry by every signer.
NextShared ==
    \/ \E caller \in CALLERS, entry \in [player : {"alice"}, trait_id : {1}, level : {1}] :
          MapMintCounterInRange /\ queue_map_mint(caller, entry)
    \/ \E caller \in CALLERS : dequeue_map_mint(caller)
    \/ \E caller \in CALLERS,
          entry \in [player : {"alice"}, trait_id : {1}, level : {1}, amount_lamports : {1}] :
          MapRewardCounterInRange /\ enqueue_map_reward(caller, entry)
    \/ \E caller \in CALLERS : pop_map_reward(caller)
    \/ \E caller \in CALLERS, player \in {"alice"}, args \in {PAGE_ADDRESS} :
          add_trait_ticket(caller, player, args)
    \/ \E caller \in CALLERS, args \in {PAGE_ADDRESS} : clear_trait_ticket_page(caller, args)

SpecShared == InitWith(U32_MAX) /\ [][NextShared]_vars

\* The state-mutating instructions of the three ledgers, each with one argument
\* value and every signer.
NextAuthority ==
    \/ \E player \in {"alice"}, args \in [amount : {1}, target_level : {1}, risk : {1},
                                         bet_id : BET_IDS], slot \in {1} :
          place_bet(player, args, slot)
    \/ \E key \in {<<"alice", 1>>}, result \in BOOLEAN, payout \in {1}, slot \in {1} :
          settle_bet(key, result, payout, slot)
    \/ \E player \in {"alice"}, amount \in {U64_MAX} : record_burn(player, amount)
    \/ \E caller \in CALLERS, code_seed \in {"seedA"}, amount \in {U64_MAX} :
          award_affiliate(caller, code_seed, amount)
    \/ \E caller \in CALLERS,
          args \in [min_bet : {Some(0)}, min_burn : {NONE}, house_edge_bps : {NONE},
                    burn_tax_bps : {NONE}] : configure_coin(caller, args)
    \/ advance_level
    \/ \E tag \in TAGS, slot \in {1} : request_rng(tag, slot)
    \/ \E caller \in CALLERS,
          args \in [price_lamports : {Some(2)}, price_purge : {NONE},
                    jackpots_per_day : {NONE}, early_purge_threshold : {NONE},
                    rng_provider : {NONE}] : configure_game(caller, args)
    \/ \E caller \in CALLERS, amount \in {U64_MAX} : award_trophy(caller, amount)
    \/ \E level \in {1, 2} : process_end_level(level)

SpecAuthority == InitWith(2) /\ [][NextAuthority]_vars

\* Burn accounting next to the other writers of the coin state.
NextBurn ==
    \/ \E player \in PLAYERS, amount \in AMOUNTS : record_burn(player, amount)
    \/ \E caller \in CALLERS, args \in ConfigureCoinArgs : configure_coin(caller, args)
    \/ \E amount \in AMOUNTS : sync_jackpot(amount)

SpecBurn == InitWith(U32_MAX) /\ [][NextBurn]_vars

\* Level settlement and trophy deferrals on the trophy vault.
NextEndLevel ==
    \/ \E level \in 0 .. U32_MAX : process_end_level(level)
    \/ \E caller \in CALLERS, deferred_lamports \in AMOUNTS :
          award_trophy(caller, deferred_lamports)

SpecEndLevel == InitWith(U32_MAX) /\ [][NextEndLevel]_vars

\* The jackpot rounds next to the ticket registry they are to pay from.
NextJackpot ==
    \/ \E args \in ProcessJackpotArgs : process_jackpot_daily(args)
    \/ \E args \in ProcessJackpotArgs : process_jackpot_map(args)
    \/ \E caller \in CALLERS, player \in PLAYERS, args \in TICKET_KEYS :
          add_trait_ticket(caller, player, args)
    \/ \E caller \in CALLERS, args \in TICKET_KEYS : clear_trait_ticket_page(caller, args)

SpecJackpot == InitWith(U32_MAX) /\ [][NextJackpot]_vars

\* The queue instructions with the head / tail counters run up to the numeric
\* maximum and into the first wrap of each queue; a queue whose tail has
\* wrapped below its head is not driven further.
MapMintCounterNotWrapped == map_mint_queue.head <= map_mint_queue.tail
MapRewardCounterNotWrapped == map_reward_queue.head <= map_reward_queue.tail

NextCounters ==
    \/ \E caller \in CALLERS, entry \in [player : {"alice"}, trait_id : {1}, level : {1}] :
          MapMintCounterNotWrapped /\ queue_map_mint(caller, entry)
    \/ \E caller \in CALLERS : MapMintCounterNotWrapped /\ dequeue_map_mint(caller)
    \/ \E caller \in CALLERS,
          entry \in [player : {"alice"}, trait_id : {1}, level : {1}, amount_lamports : {1}] :
          MapRewardCounterNotWrapped /\ enqueue_map_reward(caller, entry)
    \/ \E caller \in CALLERS :
          MapRewardCounterNotWrapped /\ pop_map_reward(caller)

SpecCounters == InitWith(U32_MAX) /\ [][NextCounters]_vars

\* The RNG lock with provider rotation, next to the instructions that run
\* while a request is pending.
NextRng ==
    \/ \E tag \in TAGS, slot \in {1} : request_rng(tag, slot)
    \/ \E caller \in CALLERS, rng_word \in {"wordA"} : fulfill_rng(caller, rng_word)
    \/ \E caller \in {AUTHORITY, "alice"},
          args \in [price_lamports : {NONE}, price_purge : {NONE}, jackpots_per_day : {NONE},
                    early_purge_threshold : {NONE},
                    rng_provider : {Some(RNG_PROVIDER), Some("alice")}] :
          configure_game(caller, args)
    \/ advance_level
    \/ \E payer \in {"alice"}, quantity \in {U64_MAX} : mint_nft(payer, quantity)
    \/ \E caller \in {AUTHORITY}, entry \in [player : {"alice"}, trait_id : {1}, level : {1}] :
          MapMintCounterInRange /\ queue_map_mint(caller, entry)
    \/ \E caller \in {AUTHORITY} : dequeue_map_mint(caller)
    \/ \E caller \in {AUTHORITY}, player \in {"alice"}, args \in {PAGE_ADDRESS} :
          add_trait_ticket(caller, player, args)
    \/ \E caller \in {AUTHORITY}, args \in {PAGE_ADDRESS} :
          clear_trait_ticket_page(caller, args)

SpecRng == InitWith(2) /\ [][NextRng]_vars

\* The two configuration instructions with no field, each single field and
\* all fields present, next to advance_level as the writer of level and phase.
ConfigureGameAbsent ==
    [price_lamports |-> NONE, price_purge |-> NONE, jackpots_per_day |-> NONE,
     early_purge_threshold |-> NONE, rng_provider |-> NONE]
ConfigureGameFields ==
    {ConfigureGameAbsent,
     [ConfigureGameAbsent EXCEPT !.price_lamports = Some(2)],
     [ConfigureGameAbsent EXCEPT !.price_purge = Some(2)],
     [ConfigureGameAbsent EXCEPT !.jackpots_per_day = Some(2)],
     [ConfigureGameAbsent EXCEPT !.early_purge_threshold = Some(2)],
     [ConfigureGameAbsent EXCEPT !.rng_provider = Some("alice")],
     [price_lamports |-> Some(2), price_purge |-> Some(2), jackpots_per_day |-> Some(2),
      early_purge_threshold |-> Some(2), rng_provider |-> Some("alice")]}
ConfigureCoinAbsent ==
    [min_bet |-> NONE, min_burn |-> NONE, house_edge_bps |-> NONE, burn_tax_bps |-> NONE]
ConfigureCoinFields ==
    {ConfigureCoinAbsent,
     [ConfigureCoinAbsent EXCEPT !.min_bet = Some(0)],
     [ConfigureCoinAbsent EXCEPT !.min_burn = Some(0)],
     [ConfigureCoinAbsent EXCEPT !.house_edge_bps = Some(1)],
     [ConfigureCoinAbsent EXCEPT !.burn_tax_bps = Some(1)],
     [min_bet |-> Some(0), min_burn |-> Some(0), house_edge_bps |-> Some(1),
      burn_tax_bps |-> Some(1)]}

NextConfigure ==
    \/ \E caller \in {AUTHORITY, "alice"}, args \in ConfigureGameFields :
          configure_game(caller, args)
    \/ \E caller \in {AUTHORITY, "alice"}, args \in ConfigureCoinFields :
          configure_coin(caller, args)
    \/ advance_level

SpecConfigure == InitWith(2) /\ [][NextConfigure]_vars

\* The two queues side by side: every push / pop request is submitted to the
\* map-mint queue and then to the map-reward queue, each by its authorized
\* caller.  QueuesSynced holds when the last request has reached both queues.
QueuesSynced == last.op \notin {"queue_map_mint", "dequeue_map_mint"}

NextLockstep ==
    \/ \E entry \in QueueMapMintArgs :
          /\ QueuesSynced
          /\ MapMintCounterInRange
          /\ queue_map_mint(game_state.authority, entry)
    \/ QueuesSynced /\ dequeue_map_mint(game_state.authority)
    \/ \E entry \in MapRewardArgs :
          /\ last.op = "queue_map_mint"
          /\ enqueue_map_reward(trophy_state.game_authority, entry)
    \/ last.op = "dequeue_map_mint" /\ pop_map_reward(trophy_state.game_authority)

SpecLockstep == InitWith(U32_MAX) /\ [][NextLockstep]_vars

\* Every instruction of the three programs.
Next ==
    \/ NextQueue
    \/ NextBet
    \/ NextAffiliate
    \/ NextGame
    \/ NextTickets
    \/ \E player \in PLAYERS, amount \in AMOUNTS : record_burn(player, amount)
    \/ \E amount \in AMOUNTS : sync_jackpot(amount)
    \/ \E caller \in CALLERS, amount \in AMOUNTS : award_trophy(caller, amount)
    \/ \E level \in 0 .. U32_MAX : process_end_level(level)

Spec == Init /\ [][Next]_vars

\* ================================================================== properties
\* ------------------------------------------------------------------ bounded queues
MintQueueLen == map_mint_queue.tail - map_mint_queue.head
RewardQueueLen == map_reward_queue.tail - map_reward_queue.head

\* C1: on both bounded queues, 0 <= tail - head <= capacity in every reachable
\* state (head and tail below the counter wrap).
C1_QueueLenWithinCapacity ==
    /\ 0 <= MintQueueLen
    /\ MintQueueLen <= MAP_QUEUE_CAPACITY
    /\ 0 <= RewardQueueLen
    /\ RewardQueueLen <= MAP_REWARD_QUEUE_CAPACITY

\* Both queues full after their slot address has wrapped.
C1_Witness ==
    /\ MintQueueLen = MAP_QUEUE_CAPACITY
    /\ map_mint_queue.head > 0
    /\ RewardQueueLen = MAP_REWARD_QUEUE_CAPACITY
    /\ map_reward_queue.head > 0

\* The live window of the map-mint queue, oldest entry first.
MintQueueWindow ==
    [i \in 1 .. MintQueueLen |->
        map_mint_queue.items[(map_mint_queue.head + i - 1) % MAP_QUEUE_CAPACITY]]

\* C2: strict FIFO on the map-mint queue.  mint_pending lists the successfully
\* enqueued entries that no dequeue has returned yet, in enqueue order; the
\* queue holds exactly these, and every successful dequeue_map_mint returns the
\* oldest of them, so the k-th dequeue returns the k-th enqueued entry, none
\* reordered, duplicated or lost.
C2_StrictFifo ==
    /\ [](MintQueueWindow = mint_pending)
    /\ [][\A caller \in CALLERS :
            (dequeue_map_mint(caller) /\ last'.result = "Ok")
            => /\ mint_pending # <<>>
               /\ [player |-> last'.event.player, trait_id |-> last'.event.trait_id,
                   level |-> last'.event.level] = Head(mint_pending)
               /\ mint_pending' = Tail(mint_pending)]_vars

\* A dequeue returned an entry that sat in a re-used slot while a different
\* entry was still waiting behind it.
C2_Witness ==
    /\ last.op = "dequeue_map_mint"
    /\ last.result = "Ok"
    /\ map_mint_queue.head > MAP_QUEUE_CAPACITY
    /\ mint_pending # <<>>
    /\ Head(mint_pending).player # last.event.player

\* C3: on either queue a push on a full queue fails QueueFull and a pop on an
\* empty queue fails QueueEmpty, both leaving the queue unchanged; on a full
\* queue a pop succeeds and the push after it succeeds and refills the queue.
\* (Pushes are those of the queue's authorized caller.)
C3_FullEmptyWraparound ==
    [][/\ \A entry \in QueueMapMintArgs :
            queue_map_mint(game_state.authority, entry)
            => IF MintQueueLen = MAP_QUEUE_CAPACITY
               THEN last'.result = "QueueFull" /\ UNCHANGED <<map_mint_queue, game_state>>
               ELSE /\ last'.result = "Ok"
                    /\ map_mint_queue'.tail - map_mint_queue'.head = MintQueueLen + 1
       /\ \A entry \in MapRewardArgs :
            enqueue_map_reward(trophy_state.game_authority, entry)
            => IF RewardQueueLen = MAP_REWARD_QUEUE_CAPACITY
               THEN last'.result = "QueueFull" /\ UNCHANGED map_reward_queue
               ELSE /\ last'.result = "Ok"
                    /\ map_reward_queue'.tail - map_reward_queue'.head = RewardQueueLen + 1
       /\ dequeue_map_mint(game_state.authority)
            => IF map_mint_queue.head = map_mint_queue.tail
               THEN last'.result = "QueueEmpty" /\ UNCHANGED <<map_mint_queue, game_state>>
               ELSE /\ last'.result = "Ok"
                    /\ map_mint_queue'.tail - map_mint_queue'.head = MintQueueLen - 1
       /\ \A caller \in CALLERS :
            pop_map_reward(caller)
            => IF map_reward_queue.head = map_reward_queue.tail
               THEN last'.result = "QueueEmpty" /\ UNCHANGED map_reward_queue
               ELSE /\ last'.result = "Ok"
                    /\ map_reward_queue'.tail - map_reward_queue'.head = RewardQueueLen - 1
      ]_vars

\* The map-reward queue was filled, popped once and pushed full again.
C3_Witness ==
    /\ last.op = "enqueue_map_reward"
    /\ last.result = "Ok"
    /\ RewardQueueLen = MAP_REWARD_QUEUE_CAPACITY
    /\ map_reward_queue.head = 1
    /\ MintQueueLen = 0
    /\ map_mint_queue.head = MAP_QUEUE_CAPACITY

\* ------------------------------------------------------------------ wagers
\* C4: settle_bet is one-shot.  On an unresolved bet record it succeeds and
\* sets resolved; on a resolved record it fails BetAlreadyResolved and leaves
\* every bet record and the coin state (the jackpot pool) unchanged.  A
\* resolved record never changes again, and jackpot_pool_purge changes only in
\* a step that resolves a bet, hence at most once per bet.
C4_SettleBetOneShot ==
    [][/\ \A key \in BET_KEYS, result \in BOOLEAN, payout \in AMOUNTS, slot \in SLOTS :
            (settle_bet(key, result, payout, slot) /\ bets[key].exists)
            => IF bets[key].resolved
               THEN /\ last'.result = "BetAlreadyResolved"
                    /\ UNCHANGED <<bets, coin_state>>
               ELSE /\ last'.result = "Ok"
                    /\ bets'[key].resolved
       /\ \A key \in BET_KEYS :
            (bets[key].exists /\ bets[key].resolved) => bets'[key] = bets[key]
       /\ coin_state'.jackpot_pool_purge # coin_state.jackpot_pool_purge
            => \E key \in BET_KEYS :
                  /\ bets[key].exists /\ ~bets[key].resolved
                  /\ bets'[key].resolved
      ]_vars

\* A second settle_bet on a resolved, lost bet was rejected.
C4_Witness ==
    /\ last.op = "settle_bet"
    /\ last.result = "BetAlreadyResolved"
    /\ \E key \in BET_KEYS :
          /\ bets[key].exists
          /\ bets[key].resolved
          /\ bets[key].result = Some(FALSE)
    /\ coin_state.jackpot_pool_purge > 0

\* C5 as claimed: a successful settle_bet leaves the pool at exactly p + a on a
\* loss and at max(p - payout, 0) on a win.
C5_PoolChangeExact ==
    [][\A key \in BET_KEYS, result \in BOOLEAN, payout \in AMOUNTS, slot \in SLOTS :
          (settle_bet(key, result, payout, slot) /\ last'.result = "Ok")
          => coin_state'.jackpot_pool_purge =
                IF result
                THEN Max(coin_state.jackpot_pool_purge - payout, 0)
                ELSE coin_state.jackpot_pool_purge + bets[key].amount
      ]_vars

\* C5 (amended): a successful settle_bet leaves the pool at min(p + a, u64::MAX)
\* on a loss and at max(p - payout, 0) on a win.
C5_PoolChangeSaturating ==
    [][\A key \in BET_KEYS, result \in BOOLEAN, payout \in AMOUNTS, slot \in SLOTS :
          (settle_bet(key, result, payout, slot) /\ last'.result = "Ok")
          => coin_state'.jackpot_pool_purge =
                IF result
                THEN Max(coin_state.jackpot_pool_purge - payout, 0)
                ELSE Min(coin_state.jackpot_pool_purge + bets[key].amount, U64_MAX)
      ]_vars

\* Two lost bets whose wagers add up to more than u64::MAX were settled.
C5_Witness ==
    /\ last.op = "settle_bet"
    /\ last.result = "Ok"
    /\ last.event.result = FALSE
    /\ \A key \in BET_KEYS :
          /\ bets[key].exists
          /\ bets[key].result = Some(FALSE)
          /\ bets[key].amount > 0
    /\ coin_state.jackpot_pool_purge = U64_MAX

\* ------------------------------------------------------------------ affiliates
\* C6: claim_affiliate(amount) by the permitted caller (the stored authority)
\* on an existing accrual record: amount > pending_claim fails PayoutExceeded
\* and leaves the record unchanged; otherwise it succeeds, pending_claim drops
\* by exactly amount and total_earned is unchanged.
C6_ClaimAffiliate ==
    [][\A code_seed \in CODE_SEEDS, amount \in AMOUNTS, slot \in SLOTS :
          (/\ claim_affiliate(coin_state.authority, code_seed, amount, slot)
           /\ affiliates[code_seed].exists)
          => IF amount > affiliates[code_seed].pending_claim
             THEN /\ last'.result = "PayoutExceeded"
                  /\ UNCHANGED affiliates
             ELSE /\ last'.result = "Ok"
                  /\ affiliates'[code_seed].pending_claim =
                        affiliates[code_seed].pending_claim - amount
                  /\ affiliates'[code_seed].total_earned =
                        affiliates[code_seed].total_earned
      ]_vars

\* A partial claim succeeded and a later, too large claim was rejected.
C6_Witness ==
    /\ last.op = "claim_affiliate"
    /\ last.result = "PayoutExceeded"
    /\ \E code_seed \in CODE_SEEDS :
          /\ affiliates[code_seed].exists
          /\ affiliates[code_seed].last_claim_slot > 0
          /\ affiliates[code_seed].pending_claim > 0
          /\ affiliates[code_seed].pending_claim < affiliates[code_seed].total_earned

\* ------------------------------------------------------------------ level progression
\* The cycle of §4.1: Minting -> PurgeWindow -> Endgame -> Maintenance -> Minting.
PhaseSuccessor(phase) ==
    CASE phase = "Minting" -> "PurgeWindow"
      [] phase = "PurgeWindow" -> "Endgame"
      [] phase = "Endgame" -> "Maintenance"
      [] phase = "Maintenance" -> "Minting"

\* C7 as claimed: advance_level at level == max_level fails MaxLevelReached
\* and leaves level and phase unchanged; at level < max_level it succeeds,
\* adds exactly 1 to level and moves phase to its successor in the cycle.
C7_AdvanceLevel ==
    [][advance_level
       => /\ game_state.level = game_state.config.max_level
             => /\ last'.result = "MaxLevelReached"
                /\ game_state'.level = game_state.level
                /\ game_state'.phase = game_state.phase
          /\ game_state.level < game_state.config.max_level
             => /\ last'.result = "Ok"
                /\ game_state'.level = game_state.level + 1
                /\ game_state'.phase = PhaseSuccessor(game_state.phase)
      ]_vars

\* C8 as claimed: with max_level = 5 the first five advance_level calls
\* succeed, the fifth leaving level = 5, and the sixth fails MaxLevelReached.
C8_FiveAdvancesThenCap ==
    (game_state.config.max_level = 5 /\ last.op = "advance_level")
    => /\ advance_calls \in 1 .. 5 => last.result = "Ok"
       /\ advance_calls = 5 => game_state.level = 5
       /\ advance_calls = 6 => last.result = "MaxLevelReached"

\* C8 (amended): with max_level = 5 the first four advance_level calls succeed,
\* the k-th leaving level = k + 1, so the fourth leaves level = 5; the fifth and
\* every later call fails MaxLevelReached with level still 5.
C8_FourAdvancesThenCap ==
    (game_state.config.max_level = 5 /\ last.op = "advance_level")
    => /\ advance_calls \in 1 .. 4
          => last.result = "Ok" /\ game_state.level = advance_calls + 1
       /\ advance_calls >= 5
          => last.result = "MaxLevelReached" /\ game_state.level = 5

\* The fifth advance_level after initialize_game(max_level = 5) was rejected.
C8_Witness ==
    /\ game_state.config.max_level = 5
    /\ last.op = "advance_level"
    /\ last.result = "MaxLevelReached"
    /\ advance_calls = 5
    /\ game_state.level = 5

\* ------------------------------------------------------------------ RNG lock
\* C9 as claimed: a request_rng while rng_locked fails RngRequestPending and
\* leaves the lock, the request record and rng_word unchanged; a fulfill_rng by
\* the configured provider while locked succeeds, stores the word, marks the
\* request fulfilled and clears the lock.
C9_RngSingleFlight ==
    [][/\ \A tag \in TAGS, slot \in SLOTS :
            (request_rng(tag, slot) /\ game_state.rng_locked)
            => /\ last'.result = "RngRequestPending"
               /\ UNCHANGED <<game_state, rng_request>>
       /\ \A rng_word \in WORDS :
            (fulfill_rng(game_state.config.rng_provider, rng_word) /\ game_state.rng_locked)
            => /\ last'.result = "Ok"
               /\ game_state'.rng_word = rng_word
               /\ rng_request'.fulfilled
               /\ ~game_state'.rng_locked
      ]_vars

\* C10: rng_locked is true exactly when an RNG request record exists whose
\* fulfilled flag is false.
C10_LockedIffUnfulfilledRequest ==
    game_state.rng_locked <=> (rng_request.exists /\ ~rng_request.fulfilled)

\* A request was issued and then fulfilled by the provider.
C10_Witness ==
    /\ last.op = "fulfill_rng"
    /\ last.result = "Ok"
    /\ rng_request.exists
    /\ rng_request.fulfilled
    /\ ~game_state.rng_locked

\* C11 as claimed: fulfill_rng on an existing request record by a caller other
\* than the configured rng_provider fails Unauthorized whether or not the lock
\* is held, and fulfill_rng by the provider while rng_locked is false fails
\* RngNotLocked; in both cases the game state (rng_locked, rng_word) and the
\* request record (fulfilled) are unchanged.
C11_FulfillRngErrors ==
    [][\A caller \in CALLERS, rng_word \in WORDS :
          (fulfill_rng(caller, rng_word) /\ rng_request.exists)
          => /\ caller # game_state.config.rng_provider
                => /\ last'.result = "Unauthorized"
                   /\ UNCHANGED <<game_state, rng_request>>
             /\ (caller = game_state.config.rng_provider /\ ~game_state.rng_locked)
                => /\ last'.result = "RngNotLocked"
                   /\ UNCHANGED <<game_state, rng_request>>
      ]_vars

\* ------------------------------------------------------------------ phase gating
\* C14: mint_nft succeeds in phase Minting and in every other phase fails
\* PhaseMismatch; purge_tokens (on an existing player record) succeeds in phase
\* PurgeWindow and in every other phase fails PhaseMismatch; a failed call
\* leaves the game state and every player record (total_mints,
\* last_level_interaction) unchanged.
C14_PhaseGating ==
    [][/\ \A payer \in PLAYERS, quantity \in QUANTITIES :
            mint_nft(payer, quantity)
            => IF game_state.phase = "Minting"
               THEN last'.result = "Ok"
               ELSE /\ last'.result = "PhaseMismatch"
                    /\ UNCHANGED <<game_state, player_state>>
       /\ \A authority \in PLAYERS :
            (purge_tokens(authority) /\ player_state[authority].exists)
            => IF game_state.phase = "PurgeWindow"
               THEN last'.result = "Ok"
               ELSE /\ last'.result = "PhaseMismatch"
                    /\ UNCHANGED <<game_state, player_state>>
      ]_vars

\* A player who minted at level 1 was refused a mint after the level advanced.
C14_Witness ==
    /\ last.op = "mint_nft"
    /\ last.result = "PhaseMismatch"
    /\ game_state.phase # "Minting"
    /\ player_state["alice"].exists
    /\ player_state["alice"].total_mints > 0
    /\ player_state["alice"].last_level_interaction < game_state.level

\* ------------------------------------------------------------------ level and phase
\* C16 as claimed: for every configured max_level, 1 <= level <= max_level in
\* every reachable state, and no step decreases level.
C16_LevelBounds ==
    /\ [](1 <= game_state.level /\ game_state.level <= game_state.config.max_level)
    /\ [][game_state'.level >= game_state.level]_vars

\* C17 as claimed: every step that changes phase moves it to its successor in
\* the cycle Minting -> PurgeWindow -> Endgame -> Maintenance -> Minting.
C17_PhaseEdges ==
    [][game_state'.phase # game_state.phase
       => game_state'.phase = PhaseSuccessor(game_state.phase)]_vars

\* C18 as claimed: the phase machine cycles while level < max_level.  From every
\* reachable state with level < max_level a state with phase PurgeWindow is
\* reached, and a state at the next level with phase Minting is reached.  (The
\* levels and phases reachable from a state are those on the single path that
\* repeated advance_level calls follow, which SpecGameFair forces.)
C18_PhaseCycles ==
    /\ (game_state.level < game_state.config.max_level)
          ~> (game_state.phase = "PurgeWindow")
    /\ \A l \in 1 .. U32_MAX - 1 :
          (game_state.level = l /\ l < game_state.config.max_level)
          ~> (game_state.level = l + 1 /\ game_state.phase = "Minting")

\* ------------------------------------------------------------------ ticket pages
\* C19: a ticket page never holds more than TICKET_PAGE_CAPACITY entries.  An
\* add_trait_ticket by the authority on a page with fewer entries succeeds and
\* adds one, so the first TICKET_PAGE_CAPACITY calls on a page succeed; on a
\* page with TICKET_PAGE_CAPACITY entries it fails TicketPageFull and leaves
\* count, seats and the key header unchanged; count <= TICKET_PAGE_CAPACITY in
\* every reachable state.
C19_TicketPageCapacity ==
    /\ [](\A k \in TICKET_KEYS :
            ticket_pages[k].exists => ticket_pages[k].count <= TICKET_PAGE_CAPACITY)
    /\ [][\A player \in PLAYERS, args \in TICKET_KEYS :
            add_trait_ticket(game_state.authority, player, args)
            => IF page_of(args).count >= TICKET_PAGE_CAPACITY
               THEN /\ last'.result = "TicketPageFull"
                    /\ UNCHANGED ticket_pages
               ELSE /\ last'.result = "Ok"
                    /\ ticket_pages'[args].count = page_of(args).count + 1
                    /\ ticket_pages'[args].seats[page_of(args).count] = player
      ]_vars

\* A page was filled and one more add_trait_ticket on it was refused.
C19_Witness ==
    /\ last.op = "add_trait_ticket"
    /\ last.result = "TicketPageFull"
    /\ \E k \in TICKET_KEYS :
          /\ ticket_pages[k].exists
          /\ ticket_pages[k].count = TICKET_PAGE_CAPACITY
          /\ \A i \in 0 .. TICKET_PAGE_CAPACITY - 1 : ticket_pages[k].seats[i] \in PLAYERS

\* C20: ticket page key lock.  While count > 0, ensure_header with a triple
\* different from the stored key fails TicketPageMismatch and leaves the page
\* (key, count, seats) unchanged; with count = 0 (a new page, or after clear())
\* ensure_header with any triple succeeds and binds the page to it; the key of
\* a page that stays non-empty never changes.
C20_TicketPageKeyLock ==
    [][/\ \A k \in TICKET_KEYS, h \in TICKET_HEADERS :
            page_ensure_header(k, h.level, h.trait_id, h.page_index)
            => LET page == page_of(k) IN
               IF page.count > 0
                  /\ <<h.level, h.trait_id, h.page_index>>
                        # <<page.level, page.trait_id, page.page_index>>
               THEN /\ last'.result = "TicketPageMismatch"
                    /\ UNCHANGED ticket_pages
               ELSE /\ last'.result = "Ok"
                    /\ ticket_pages'[k] = [page EXCEPT !.level = h.level,
                                                      !.trait_id = h.trait_id,
                                                      !.page_index = h.page_index]
       /\ \A k \in TICKET_KEYS :
            (/\ ticket_pages[k].exists /\ ticket_pages[k].count > 0
             /\ ticket_pages'[k].count > 0)
            => /\ ticket_pages'[k].level = ticket_pages[k].level
               /\ ticket_pages'[k].trait_id = ticket_pages[k].trait_id
               /\ ticket_pages'[k].page_index = ticket_pages[k].page_index
      ]_vars

\* A full page bound to a key other than the one first tried (so it was
\* rebound while empty) refused an ensure_header with a different triple.
C20_Witness ==
    /\ last.op = "ensure_header"
    /\ last.result = "TicketPageMismatch"
    /\ ticket_pages[PAGE_ADDRESS].exists
    /\ ticket_pages[PAGE_ADDRESS].count = TICKET_PAGE_CAPACITY
    /\ ticket_pages[PAGE_ADDRESS].level = 2
    /\ ticket_pages[PAGE_ADDRESS].trait_id = 2

\* ------------------------------------------------------------------ authority
\* C13 as claimed: queues and ticket pages change only through calls by the
\* identity recorded in the owning ledger's singleton (GameState.authority for
\* the map-mint queue and the ticket pages; TrophyState.authority or
\* TrophyState.game_authority for the map-reward queue): a queue_map_mint,
\* dequeue_map_mint, enqueue_map_reward, pop_map_reward, add_trait_ticket or
\* clear_trait_ticket_page by any other identity fails and leaves head, tail,
\* slots, page count and seats unchanged.
C13_SharedResourceAuthority ==
    [][/\ \A caller \in CALLERS \ {game_state.authority} :
            /\ \A entry \in QueueMapMintArgs :
                  queue_map_mint(caller, entry)
                  => last'.result # "Ok" /\ UNCHANGED <<map_mint_queue, ticket_pages>>
            /\ dequeue_map_mint(caller)
                  => last'.result # "Ok" /\ UNCHANGED <<map_mint_queue, ticket_pages>>
            /\ \A player \in PLAYERS, args \in TICKET_KEYS :
                  add_trait_ticket(caller, player, args)
                  => last'.result # "Ok" /\ UNCHANGED <<map_mint_queue, ticket_pages>>
            /\ \A args \in TICKET_KEYS :
                  clear_trait_ticket_page(caller, args)
                  => last'.result # "Ok" /\ UNCHANGED <<map_mint_queue, ticket_pages>>
       /\ \A caller \in CALLERS \ {trophy_state.authority, trophy_state.game_authority} :
            /\ \A entry \in MapRewardArgs :
                  enqueue_map_reward(caller, entry)
                  => last'.result # "Ok" /\ UNCHANGED map_reward_queue
            /\ pop_map_reward(caller)
                  => last'.result # "Ok" /\ UNCHANGED map_reward_queue
      ]_vars

\* C12 as claimed: every state-mutating operation validates the caller against
\* the ledger's stored authority before mutating; a call by any other signer
\* fails Unauthorized and changes no ledger state.  place_bet and record_burn
\* are signed by the player; settle_bet, advance_level, request_rng and
\* process_end_level name no authority account, so a step of theirs is a step
\* by whichever signer submitted it.
C12_AuthorityBeforeMutation ==
    [][/\ \A caller \in CALLERS \ {coin_state.authority} :
            /\ \A player \in PLAYERS \ {coin_state.authority}, args \in PlaceBetArgs,
                  slot \in SLOTS :
                  place_bet(player, args, slot)
                  => last'.result = "Unauthorized" /\ UNCHANGED coinVars
            /\ \A key \in BET_KEYS, result \in BOOLEAN, payout \in AMOUNTS, slot \in SLOTS :
                  settle_bet(key, result, payout, slot)
                  => last'.result = "Unauthorized" /\ UNCHANGED coinVars
            /\ \A player \in PLAYERS \ {coin_state.authority}, amount \in AMOUNTS :
                  record_burn(player, amount)
                  => last'.result = "Unauthorized" /\ UNCHANGED coinVars
            /\ \A code_seed \in CODE_SEEDS, amount \in AMOUNTS :
                  award_affiliate(caller, code_seed, amount)
                  => last'.result = "Unauthorized" /\ UNCHANGED coinVars
            /\ \A args \in ConfigureCoinArgs :
                  configure_coin(caller, args)
                  => last'.result = "Unauthorized" /\ UNCHANGED coinVars
       /\ \A caller \in CALLERS \ {game_state.authority} :
            /\ advance_level
                  => last'.result = "Unauthorized" /\ UNCHANGED gameVars
            /\ \A tag \in TAGS, slot \in SLOTS :
                  request_rng(tag, slot)
                  => last'.result = "Unauthorized" /\ UNCHANGED gameVars
            /\ \A args \in ConfigureGameArgs :
                  configure_game(caller, args)
                  => last'.result = "Unauthorized" /\ UNCHANGED gameVars
       /\ \A caller \in CALLERS \ {trophy_state.authority} :
            /\ \A amount \in AMOUNTS :
                  award_trophy(caller, amount)
                  => last'.result = "Unauthorized" /\ UNCHANGED trophyVars
            /\ \A level \in 0 .. U32_MAX :
                  process_end_level(level)
                  => last'.result = "Unauthorized" /\ UNCHANGED trophyVars
      ]_vars

\* ------------------------------------------------------------------ clearing a page
\* C21: a clear_trait_ticket_page by the authority on an existing page succeeds,
\* sets count to 0 and every seat to the zero identity, and leaves the stored
\* (level, trait_id, page_index) header unchanged, so no ticket added before
\* the clear remains in the page.
C21_ClearTicketPage ==
    [][\A args \in TICKET_KEYS :
          (clear_trait_ticket_page(game_state.authority, args) /\ ticket_pages[args].exists)
          => /\ last'.result = "Ok"
             /\ ticket_pages'[args].count = 0
             /\ \A i \in 0 .. TICKET_PAGE_CAPACITY - 1 :
                   ticket_pages'[args].seats[i] = DEFAULT_KEY
             /\ ticket_pages'[args].level = ticket_pages[args].level
             /\ ticket_pages'[args].trait_id = ticket_pages[args].trait_id
             /\ ticket_pages'[args].page_index = ticket_pages[args].page_index
             /\ \A k \in TICKET_KEYS \ {args} : ticket_pages'[k] = ticket_pages[k]
      ]_vars

\* A page that held tickets (it exists only through a successful
\* add_trait_ticket) was cleared while the other page stayed full.
C21_Witness ==
    /\ last.op = "clear_trait_ticket_page"
    /\ last.result = "Ok"
    /\ \E k \in TICKET_KEYS :
          /\ last.event.level = k.level
          /\ ticket_pages[k].exists
          /\ ticket_pages[k].count = 0
          /\ ticket_pages[k].level = k.level
          /\ \E other \in TICKET_KEYS \ {k} :
                /\ ticket_pages[other].exists
                /\ ticket_pages[other].count = TICKET_PAGE_CAPACITY

\* ------------------------------------------------------------------ queue bookkeeping
\* C22: the length mirror is in lock-step with the map-mint queue.  In every
\* reachable state map_queue_len = tail - head (also after a failed
\* queue_map_mint / dequeue_map_mint), and the queue_len of the last
\* MapMintQueued / MapMintDequeued event is the queue length after that call.
C22_LengthMirror ==
    /\ game_state.map_queue_len = MintQueueLen
    /\ (last.op \in {"queue_map_mint", "dequeue_map_mint"} /\ last.result = "Ok")
          => last.event.queue_len = MintQueueLen

\* A queue_map_mint on the full queue failed after earlier dequeues.
C22_Witness ==
    /\ last.op = "queue_map_mint"
    /\ last.result = "QueueFull"
    /\ map_mint_queue.head > 0
    /\ game_state.map_queue_len = MAP_QUEUE_CAPACITY

\* C23: no stale data in free slots.  On both queues every backing-array slot
\* whose index is not in the live window {i % C : head <= i < tail} holds the
\* zero-value record.
C23_FreeSlotsZeroed ==
    /\ \A slot \in 0 .. MAP_QUEUE_CAPACITY - 1 :
          (\A i \in map_mint_queue.head .. map_mint_queue.tail - 1 :
              i % MAP_QUEUE_CAPACITY # slot)
          => map_mint_queue.items[slot] = PendingMapMint_default
    /\ \A slot \in 0 .. MAP_REWARD_QUEUE_CAPACITY - 1 :
          (\A i \in map_reward_queue.head .. map_reward_queue.tail - 1 :
              i % MAP_REWARD_QUEUE_CAPACITY # slot)
          => map_reward_queue.entries[slot] = MapRewardEntry_default

\* Both queues were filled and then popped down to one live entry, so each has
\* free slots that held entries before.
C23_Witness ==
    /\ map_mint_queue.head >= MAP_QUEUE_CAPACITY - 1
    /\ MintQueueLen = 1
    /\ map_reward_queue.head >= MAP_REWARD_QUEUE_CAPACITY - 1
    /\ RewardQueueLen = 1

\* ------------------------------------------------------------------ placing a wager
\* C24: a place_bet for a new (player, bet_id) with amount below the configured
\* min_bet fails with BelowMinimumBet and changes nothing (no bet record,
\* total_bets unchanged); every successful place_bet creates an unresolved bet
\* record with the given amount and raises total_bets by exactly 1.
C24_PlaceBet ==
    [][\A player \in PLAYERS, args \in PlaceBetArgs, slot \in SLOTS :
          LET key == <<player, args.bet_id>> IN
          place_bet(player, args, slot)
          => /\ (~bets[key].exists /\ args.amount < coin_state.min_bet)
                  => /\ last'.result = "BelowMinimumBet"
                     /\ UNCHANGED <<bets, coin_state, stake_state>>
             /\ (~bets[key].exists /\ args.amount >= coin_state.min_bet)
                  => last'.result = "Ok"
             /\ last'.result = "Ok"
                  => /\ ~bets[key].exists
                     /\ bets'[key].exists
                     /\ ~bets'[key].resolved
                     /\ bets'[key].amount = args.amount
                     /\ bets'[key].player = player
                     /\ coin_state'.total_bets = coin_state.total_bets + 1
                     /\ \A other \in BET_KEYS \ {key} : bets'[other] = bets[other]
      ]_vars

\* After one wager was placed, a wager below the minimum was rejected.
C24_Witness ==
    /\ last.op = "place_bet"
    /\ last.result = "BelowMinimumBet"
    /\ coin_state.total_bets = 1
    /\ \E key \in BET_KEYS : ~bets[key].exists

\* C29: resolution is permanent.  A resolved bet record is never changed again
\* by any instruction; a place_bet for a (player, bet_id) whose record exists
\* fails and changes neither the records nor the coin state; and the jackpot
\* pool changes only in a step that resolves a so far unresolved record, hence
\* at most once per (player, bet_id).
C29_ResolutionPermanent ==
    [][/\ \A key \in BET_KEYS :
            (bets[key].exists /\ bets[key].resolved) => bets'[key] = bets[key]
       /\ \A player \in PLAYERS, args \in PlaceBetArgs, slot \in SLOTS :
            (place_bet(player, args, slot) /\ bets[<<player, args.bet_id>>].exists)
            => /\ last'.result = "AccountAlreadyInUse"
               /\ UNCHANGED <<bets, coin_state>>
       /\ coin_state'.jackpot_pool_purge # coin_state.jackpot_pool_purge
            => \E key \in BET_KEYS :
                  /\ bets[key].exists /\ ~bets[key].resolved
                  /\ bets'[key].resolved
                  /\ \A other \in BET_KEYS \ {key} : bets'[other] = bets[other]
      ]_vars

\* A place_bet on a resolved (player, bet_id) was rejected after its
\* settlement had moved the pool.
C29_Witness ==
    /\ last.op = "place_bet"
    /\ last.result = "AccountAlreadyInUse"
    /\ coin_state.jackpot_pool_purge > 0
    /\ coin_state.total_bets = 1
    /\ \E key \in BET_KEYS : bets[key].exists /\ bets[key].resolved

\* ------------------------------------------------------------------ burn accounting
\* C25: record_burn with amount below the configured min_burn fails with
\* BelowMinimumBurn and leaves total_burned (the whole coin state) unchanged;
\* each successful record_burn(amount) raises total_burned by amount, clamped
\* at the numeric maximum; and no step lowers total_burned.
C25_RecordBurn ==
    [][/\ \A player \in PLAYERS, amount \in AMOUNTS :
            record_burn(player, amount)
            => IF amount < coin_state.min_burn
               THEN /\ last'.result = "BelowMinimumBurn"
                    /\ UNCHANGED coin_state
               ELSE /\ last'.result = "Ok"
                    /\ coin_state'.total_burned =
                          Min(coin_state.total_burned + amount, U64_MAX)
       /\ coin_state'.total_burned >= coin_state.total_burned
      ]_vars

\* A burn below the minimum was rejected once total_burned had reached the
\* numeric maximum.
C25_Witness ==
    /\ last.op = "record_burn"
    /\ last.result = "BelowMinimumBurn"
    /\ coin_state.total_burned = U64_MAX

\* ------------------------------------------------------------------ level settlement
\* C27: level settlement is never repeated.  process_end_level(level) with
\* level <= last_level_paid fails with LevelAlreadySettled and leaves
\* last_level_paid and last_level_processed unchanged; each successful call
\* sets last_level_paid to a strictly higher level; no step lowers
\* last_level_paid; and last_level_processed = last_level_paid in every
\* reachable state.
C27_LevelSettledOnce ==
    /\ [](trophy_state.last_level_processed = trophy_vault.last_level_paid)
    /\ [][/\ \A level \in 0 .. U32_MAX :
               process_end_level(level)
               => IF level <= trophy_vault.last_level_paid
                  THEN /\ last'.result = "LevelAlreadySettled"
                       /\ UNCHANGED <<trophy_vault, trophy_state>>
                  ELSE /\ last'.result = "Ok"
                       /\ trophy_vault'.last_level_paid = level
                       /\ trophy_vault'.last_level_paid > trophy_vault.last_level_paid
          /\ trophy_vault'.last_level_paid >= trophy_vault.last_level_paid
         ]_vars

\* A settlement was rejected after two successful settlements (levels 1 and
\* then the highest level).
C27_Witness ==
    /\ last.op = "process_end_level"
    /\ last.result = "LevelAlreadySettled"
    /\ trophy_vault.last_level_paid = U32_MAX
    /\ trophy_state.last_level_processed = U32_MAX

\* ------------------------------------------------------------------ jackpot rounds
\* C26: process_jackpot_daily and process_jackpot_map are valid only once per
\* rotation.  When the previous transaction was a successful
\* process_jackpot_daily (process_jackpot_map) and the rotation counters
\* daily_index / jackpot_counter still hold the values of initialize_game, so
\* that both calls fall into the same rotation, another process_jackpot_daily
\* (process_jackpot_map) does not succeed.
C26_JackpotOncePerRotation ==
    [][\A args \in ProcessJackpotArgs :
          /\ ( /\ process_jackpot_daily(args)
               /\ last.op = "process_jackpot_daily" /\ last.result = "Ok"
               /\ game_state.daily_index = 0 /\ game_state.jackpot_counter = 0 )
             => last'.result # "Ok"
          /\ ( /\ process_jackpot_map(args)
               /\ last.op = "process_jackpot_map" /\ last.result = "Ok"
               /\ game_state.daily_index = 0 /\ game_state.jackpot_counter = 0 )
             => last'.result # "Ok"
      ]_vars

\* ------------------------------------------------------------------ reuse of the RNG lock
\* C30: the RNG lock is reusable.  A request_rng submitted in a state where
\* rng_locked is false, in particular after a request_rng / fulfill_rng round
\* has completed, succeeds, sets rng_locked and records an unfulfilled request.
C30_RngLockReusable ==
    [][\A tag \in TAGS, slot \in SLOTS :
          (request_rng(tag, slot) /\ ~game_state.rng_locked)
          => /\ last'.result = "Ok"
             /\ game_state'.rng_locked
             /\ rng_request'.exists
             /\ ~rng_request'.fulfilled
      ]_vars

\* ------------------------------------------------------------------ arithmetic at the numeric bounds
\* C28, for the queue counters and the fullness computation of
\* enqueue_map_reward: no arithmetic wraps around or hard-faults.  No step
\* moves a head or tail counter of either queue to a smaller value (an
\* increment at the maximum clamps instead of wrapping to 0), and no
\* instruction ends in an arithmetic fault.
C28_NoWrapNoFault ==
    [][/\ map_mint_queue'.tail >= map_mint_queue.tail
       /\ map_mint_queue'.head >= map_mint_queue.head
       /\ map_reward_queue'.tail >= map_reward_queue.tail
       /\ map_reward_queue'.head >= map_reward_queue.head
       /\ last'.result # "Panic"
      ]_vars

\* ------------------------------------------------------------------ the pending RNG request
\* C31: while an RNG request is pending (rng_locked), a step clears rng_locked
\* or changes rng_word only if it is a successful fulfill_rng by the currently
\* configured provider; every other instruction (advance_level, mint_nft,
\* configure_game, the queue and ticket instructions, request_rng, a rejected
\* fulfill_rng) leaves rng_locked and rng_word unchanged.
C31_PendingOnlyFulfilled ==
    [][game_state.rng_locked
       => /\ (~game_state'.rng_locked \/ game_state'.rng_word # game_state.rng_word)
               => /\ last'.op = "fulfill_rng"
                  /\ last'.result = "Ok"
                  /\ \E rng_word \in WORDS :
                        fulfill_rng(game_state.config.rng_provider, rng_word)
          /\ (last'.op # "fulfill_rng" \/ last'.result # "Ok")
               => /\ game_state'.rng_locked
                  /\ game_state'.rng_word = game_state.rng_word
      ]_vars

\* With the request pending, the provider was rotated, tickets and map mints
\* were queued and a level was advanced, and the lock is still held with no
\* word delivered.
C31_Witness ==
    /\ game_state.rng_locked
    /\ game_state.rng_word = ZERO_WORD
    /\ rng_request.exists /\ ~rng_request.fulfilled
    /\ game_state.config.rng_provider = "alice"
    /\ game_state.level = 2
    /\ map_mint_queue.tail > 0
    /\ ticket_pages[PAGE_ADDRESS].exists
    /\ last.op = "fulfill_rng" /\ last.result = "Unauthorized"

\* C32: provider rotation during a pending request.  A configure_game by the
\* authority that sets rng_provider while rng_locked leaves the request
\* pending (lock held, request record unchanged) and installs the new
\* provider; a fulfill_rng while locked succeeds and clears the lock when it
\* is signed by the provider configured at that moment, and fails with
\* Unauthorized, changing nothing, for every other signer, the previous
\* provider included.
C32_ProviderRotation ==
    [][/\ \A provider \in {RNG_PROVIDER, "alice"} :
            ( /\ configure_game(game_state.authority,
                     [price_lamports |-> NONE, price_purge |-> NONE,
                      jackpots_per_day |-> NONE, early_purge_threshold |-> NONE,
                      rng_provider |-> Some(provider)])
              /\ game_state.rng_locked )
            => /\ last'.result = "Ok"
               /\ game_state'.rng_locked
               /\ game_state'.rng_word = game_state.rng_word
               /\ rng_request' = rng_request
               /\ game_state'.config.rng_provider = provider
       /\ \A caller \in CALLERS, rng_word \in WORDS :
            (fulfill_rng(caller, rng_word) /\ game_state.rng_locked)
            => IF caller = game_state.config.rng_provider
               THEN /\ last'.result = "Ok"
                    /\ ~game_state'.rng_locked
                    /\ game_state'.rng_word = rng_word
                    /\ rng_request'.fulfilled
               ELSE /\ last'.result = "Unauthorized"
                    /\ UNCHANGED <<game_state, rng_request>>
      ]_vars

\* The rotated-in provider (not the provider of initialize_game) fulfilled the
\* request.
C32_Witness ==
    /\ last.op = "fulfill_rng"
    /\ last.result = "Ok"
    /\ game_state.config.rng_provider = "alice"
    /\ ~game_state.rng_locked
    /\ game_state.rng_word = "wordA"
    /\ rng_request.fulfilled

\* ------------------------------------------------------------------ affiliate balances
\* C33: for every affiliate accrual record, pending_claim <= total_earned in
\* every reachable state; no step lowers total_earned; and pending_claim is
\* lowered only by a successful claim_affiliate.
C33_PendingWithinEarned ==
    /\ [](\A code_seed \in CODE_SEEDS :
            affiliates[code_seed].exists
            => affiliates[code_seed].pending_claim <= affiliates[code_seed].total_earned)
    /\ [][\A code_seed \in CODE_SEEDS :
            affiliates[code_seed].exists
            => /\ affiliates'[code_seed].exists
               /\ affiliates'[code_seed].total_earned >= affiliates[code_seed].total_earned
               /\ affiliates'[code_seed].pending_claim < affiliates[code_seed].pending_claim
                    => /\ last'.op = "claim_affiliate"
                       /\ last'.result = "Ok"
                       /\ last'.event.code_seed = code_seed
         ]_vars

\* After accruals up to the numeric maximum a claim took part of the pending
\* balance of one record.
C33_Witness ==
    /\ last.op = "claim_affiliate"
    /\ last.result = "Ok"
    /\ \E code_seed \in CODE_SEEDS :
          /\ affiliates[code_seed].exists
          /\ last.event.code_seed = code_seed
          /\ affiliates[code_seed].total_earned = U64_MAX
          /\ affiliates[code_seed].pending_claim = U64_MAX - 1

\* ------------------------------------------------------------------ configuration
\* C34: no step changes a ledger's stored authority or the game's max_level.
\* A configure_game (configure_coin) by the authority succeeds, stores exactly
\* the fields supplied as present, and leaves every absent field, every other
\* field of the ledger (level, phase, pools, counters, lock) and every other
\* account unchanged; by any other signer it changes nothing.
C34_ConfigureFrame ==
    [][/\ game_state'.authority = game_state.authority
       /\ game_state'.config.max_level = game_state.config.max_level
       /\ coin_state'.authority = coin_state.authority
       /\ trophy_state'.authority = trophy_state.authority
       /\ trophy_state'.game_authority = trophy_state.game_authority
       /\ \A caller \in {AUTHORITY, "alice"}, args \in ConfigureGameFields :
            (last'.op = "configure_game" /\ configure_game(caller, args))
            => IF caller = game_state.authority
               THEN /\ last'.result = "Ok"
                    /\ \A f \in DOMAIN args :
                          game_state'.config[f] =
                             IF args[f] = NONE THEN game_state.config[f] ELSE unwrap(args[f])
                    /\ \A f \in DOMAIN game_state.config \ DOMAIN args :
                          game_state'.config[f] = game_state.config[f]
                    /\ \A f \in DOMAIN game_state \ {"config"} :
                          game_state'[f] = game_state[f]
                    /\ UNCHANGED <<map_mint_queue, rng_request, player_state, ticket_pages,
                                   coinVars, trophyVars>>
               ELSE /\ last'.result = "Unauthorized"
                    /\ UNCHANGED <<gameVars, coinVars, trophyVars>>
       /\ \A caller \in {AUTHORITY, "alice"}, args \in ConfigureCoinFields :
            (last'.op = "configure_coin" /\ configure_coin(caller, args))
            => IF caller = coin_state.authority
               THEN /\ last'.result = "Ok"
                    /\ \A f \in DOMAIN args :
                          coin_state'[f] =
                             IF args[f] = NONE THEN coin_state[f] ELSE unwrap(args[f])
                    /\ \A f \in DOMAIN coin_state \ DOMAIN args :
                          coin_state'[f] = coin_state[f]
                    /\ UNCHANGED <<bets, affiliates, stake_state, gameVars, trophyVars>>
               ELSE /\ last'.result = "Unauthorized"
                    /\ UNCHANGED <<gameVars, coinVars, trophyVars>>
      ]_vars

\* After a level advance, configure_coin with only min_burn present was
\* applied, and configure_game had set only price_lamports.
C34_Witness ==
    /\ last.op = "configure_coin"
    /\ last.result = "Ok"
    /\ coin_state.min_burn = 0
    /\ coin_state.min_bet = 1
    /\ coin_state.house_edge_bps = 0
    /\ coin_state.burn_tax_bps = 0
    /\ game_state.level = 2
    /\ game_state.phase = "Maintenance"
    /\ game_state.config.price_lamports = 2
    /\ game_state.config.price_purge = 1
    /\ game_state.config.rng_provider = RNG_PROVIDER

\* ------------------------------------------------------------------ the two queue instantiations
\* C35: the map-mint queue and the map-reward queue are behaviourally
\* equivalent.  Run side by side from empty on the same sequence of push / pop
\* requests by their authorized callers (counters below the wrap), the
\* map-reward queue gives every request the result the map-mint queue gave it
\* (Ok, QueueFull or QueueEmpty), and once a request has reached both queues
\* they have equal head, equal tail and the same occupied slots.
C35_QueuesEquivalent ==
    /\ [](QueuesSynced
            => /\ map_reward_queue.head = map_mint_queue.head
               /\ map_reward_queue.tail = map_mint_queue.tail
               /\ MAP_REWARD_QUEUE_CAPACITY = MAP_QUEUE_CAPACITY
               /\ \A slot \in 0 .. MAP_QUEUE_CAPACITY - 1 :
                     (map_reward_queue.entries[slot] = MapRewardEntry_default)
                     <=> (map_mint_queue.items[slot] = PendingMapMint_default))
    /\ [][last'.op \in {"enqueue_map_reward", "pop_map_reward"}
            => last'.result = last.result]_vars

\* Both queues rejected the same push as full after their slot address had
\* wrapped.
C35_Witness ==
    /\ last.op = "enqueue_map_reward"
    /\ last.result = "QueueFull"
    /\ map_mint_queue.head > 0
    /\ map_mint_queue.tail - map_mint_queue.head = MAP_QUEUE_CAPACITY
    /\ map_reward_queue.tail - map_reward_queue.head = MAP_REWARD_QUEUE_CAPACITY

====
